---- MODULE Spec2Model ----
(***************************************************************************)
(* Model of the data-structure-checker skill                               *)
(*   scripts/reader.py   MultiLevelReader, _resolve_unicode_path           *)
(*   scripts/checker.py  DataStructureChecker                              *)
(*                                                                         *)
(* Text is modelled as a sequence of one-character strings, so that        *)
(* formatting (f"{name}_{n}"), strip(), split('-'), startswith() and       *)
(* join() are computed and not assumed.                                    *)
(***************************************************************************)
EXTENDS Integers, Sequences, FiniteSets, TLC

VARIABLES
    \* Duplicate Name Resolver: the proposed names, the result of the run
    \* inside the reader, the result and rename list of the checker's run.
    dupPc, names, firstPass, secondPass, renamed,
    \* Identifier-like classifier: the string and the answer.
    idPc, val, idLike,
    \* Header Extent Detector: the raw grid, the max_header_rows setting and
    \* the row indices returned.
    hdrPc, rawDf, maxHeaderRows, headerRows,
    \* Header Flattener: the column index read with the detected header,
    \* the separator, the name kept per column and level after forward-fill,
    \* the names proposed and the names returned.
    flatPc, columns, separator, levelNames, proposed, colNames,
    \* Grid Trimmer: the table read (column names and data body), the table
    \* returned and the counts of rows and columns removed.
    trimPc, df, trimmed, rowsRemoved, colsRemoved,
    \* Type Inferrer: the table and the report given to _infer_types, and
    \* the table and the report it leaves.
    inferPc, inferDf, inferred, inferReport,
    \* Encoding Resolver: the bytes of the file, the report given to
    \* _detect_encoding, and the encoding and the report it leaves.
    encPc, fileBytes, encReport, detected,
    \* Unicode Path Resolver: the path requested, the filesystem, and what
    \* the call leaves.
    pathPc, requested, fs, resolved,
    \* Orchestrator: one smart_read call, its inputs, locals, report and
    \* outcome.
    call,
    \* Concurrent callers: the calls in progress, the dict objects made so
    \* far, and for each DataStructureChecker instance the dict its _report
    \* attribute refers to.
    calls, checkers, heap

dupVars == <<dupPc, names, firstPass, secondPass, renamed>>
idVars == <<idPc, val, idLike>>
hdrVars == <<hdrPc, rawDf, maxHeaderRows, headerRows>>

flatVars == <<flatPc, columns, separator, levelNames, proposed, colNames>>

trimVars == <<trimPc, df, trimmed, rowsRemoved, colsRemoved>>

inferVars == <<inferPc, inferDf, inferred, inferReport>>

encVars == <<encPc, fileBytes, encReport, detected>>

pathVars == <<pathPc, requested, fs, resolved>>

readVars == <<call>>

concVars == <<calls, checkers, heap>>

vars ==
    <<dupVars, idVars, hdrVars, flatVars, trimVars,
      inferVars, encVars, pathVars, readVars, concVars>>

\* A component that is not running: its variables hold nothing.
DupIdle ==
    dupPc = "idle" /\ names = <<>> /\ firstPass = <<>> /\ secondPass = <<>>
    /\ renamed = <<>>
IdIdle == idPc = "idle" /\ val = <<>> /\ idLike = FALSE
HdrIdle ==
    hdrPc = "idle" /\ rawDf = [ncols |-> 0, rows |-> <<>>] /\ maxHeaderRows = 0
    /\ headerRows = <<>>
FlatIdle ==
    flatPc = "idle" /\ columns = [nlevels |-> 1, tuples |-> <<>>]
    /\ separator = <<>> /\ levelNames = <<>> /\ proposed = <<>>
    /\ colNames = <<>>
TrimIdle ==
    trimPc = "idle" /\ df = [columns |-> <<>>, rows |-> <<>>]
    /\ trimmed = [columns |-> <<>>, rows |-> <<>>]
    /\ rowsRemoved = 0 /\ colsRemoved = 0
InferIdle ==
    inferPc = "idle" /\ inferDf = <<>> /\ inferReport = <<>>
    /\ inferred = [df |-> <<>>, report |-> <<>>]
EncIdle ==
    encPc = "idle" /\ fileBytes = <<>> /\ encReport = <<>>
    /\ detected = [encoding |-> "", report |-> <<>>]
PathIdle ==
    pathPc = "idle" /\ requested = <<>> /\ fs = {}
    /\ resolved = [kind |-> "returned", path |-> <<>>]
ReadIdle == call = [pc |-> "idle"]
ConcIdle == calls = <<>> /\ checkers = <<>> /\ heap = <<>>

(***************************************************************************)
(* Text helpers                                                            *)
(***************************************************************************)

\* The decimal digits str(n) is made of.
Digits == <<"0", "1", "2", "3", "4", "5", "6", "7", "8", "9">>

\* str(n) for an int n >= 0, as the f-strings f"{name}_{seen[name]}" and
\* f"Column_{len(flattened)}" format it.
RECURSIVE IntToStr(_)
IntToStr(n) ==
    IF n < 10 THEN <<Digits[n + 1]>>
    ELSE IntToStr(n \div 10) \o <<Digits[(n % 10) + 1]>>

\* All sequences over S of length 0..n.
SeqsUpTo(S, n) == UNION {[1..k -> S] : k \in 0..n}

\* Character classes of str.isalpha, str.isdigit, str.isspace and of the
\* digits int(s, 16) accepts.
Letters ==
    { "a", "b", "c", "d", "e", "f", "g", "h", "i", "j", "k", "l", "m",
      "n", "o", "p", "q", "r", "s", "t", "u", "v", "w", "x", "y", "z",
      "A", "B", "C", "D", "E", "F", "G", "H", "I", "J", "K", "L", "M",
      "N", "O", "P", "Q", "R", "S", "T", "U", "V", "W", "X", "Y", "Z" }
DigitChars == {"0", "1", "2", "3", "4", "5", "6", "7", "8", "9"}
HexChars == DigitChars \cup {"a", "b", "c", "d", "e", "f", "A", "B", "C", "D", "E", "F"}
SpaceChars == {" "}

Has(s, c) == \E i \in 1..Len(s) : s[i] = c

\* str.isalnum(): not empty and every character a letter or a digit.
IsAlnum(s) == s # <<>> /\ \A i \in 1..Len(s) : s[i] \in Letters \cup DigitChars

\* str.strip(): leading and trailing whitespace removed.
RECURSIVE LStrip(_)
LStrip(s) == IF s # <<>> /\ Head(s) \in SpaceChars THEN LStrip(Tail(s)) ELSE s
RECURSIVE RStrip(_)
RStrip(s) ==
    IF s # <<>> /\ s[Len(s)] \in SpaceChars
    THEN RStrip(SubSeq(s, 1, Len(s) - 1)) ELSE s
Strip(s) == RStrip(LStrip(s))

\* str.split(sep): the segments between the separators, empty ones kept.
RECURSIVE SplitLoop(_, _, _, _)
SplitLoop(s, sep, i, cur) ==
    IF i > Len(s) THEN <<cur>>
    ELSE IF s[i] = sep THEN <<cur>> \o SplitLoop(s, sep, i + 1, <<>>)
         ELSE SplitLoop(s, sep, i + 1, Append(cur, s[i]))
Split(s, sep) == SplitLoop(s, sep, 1, <<>>)

\* str.startswith(prefix)
StartsWith(s, prefix) ==
    Len(s) >= Len(prefix) /\ SubSeq(s, 1, Len(prefix)) = prefix

(***************************************************************************)
(* Duplicate Name Resolver                                                 *)
(***************************************************************************)

\* f"{name}_{n}"
Suffixed(name, n) == name \o <<"_">> \o IntToStr(n)

\* The for-loop of _handle_duplicate_names: seen maps each name met so far
\* to the number of its later occurrences, result is the list built so far.
RECURSIVE HandleDuplicateLoop(_, _, _, _)
HandleDuplicateLoop(ns, i, seen, result) ==
    IF i > Len(ns) THEN result
    ELSE LET name == ns[i] IN
         IF name \in DOMAIN seen
         THEN LET n == seen[name] + 1 IN
              HandleDuplicateLoop(ns, i + 1, [seen EXCEPT ![name] = n],
                                  Append(result, Suffixed(name, n)))
         ELSE HandleDuplicateLoop(ns, i + 1, (name :> 0) @@ seen,
                                  Append(result, name))

\* Mutant: the count of a name starts at 1, so the first duplicate gets _2.
RECURSIVE HandleDuplicateLoopFromOne(_, _, _, _)
HandleDuplicateLoopFromOne(ns, i, seen, result) ==
    IF i > Len(ns) THEN result
    ELSE LET name == ns[i] IN
         IF name \in DOMAIN seen
         THEN LET n == seen[name] + 1 IN
              HandleDuplicateLoopFromOne(ns, i + 1, [seen EXCEPT ![name] = n],
                                         Append(result, Suffixed(name, n)))
         ELSE HandleDuplicateLoopFromOne(ns, i + 1, (name :> 1) @@ seen,
                                         Append(result, name))

HandleDuplicateNamesFromOne(ns) == HandleDuplicateLoopFromOne(ns, 1, <<>>, <<>>)

\* MultiLevelReader._handle_duplicate_names
HandleDuplicateNames(ns) == HandleDuplicateLoop(ns, 1, <<>>, <<>>)

\* The for-loop of _handle_duplicate_columns over df.columns: as above, and
\* renamed collects the (old, new) pairs in order.
RECURSIVE HandleDuplicateColumnsLoop(_, _, _, _, _)
HandleDuplicateColumnsLoop(cols, i, seen, new_cols, ren) ==
    IF i > Len(cols) THEN [new_cols |-> new_cols, renamed |-> ren]
    ELSE LET col == cols[i] IN
         IF col \in DOMAIN seen
         THEN LET n        == seen[col] + 1
                  new_name == Suffixed(col, n)
              IN  HandleDuplicateColumnsLoop(cols, i + 1,
                      [seen EXCEPT ![col] = n], Append(new_cols, new_name),
                      Append(ren, <<col, new_name>>))
         ELSE HandleDuplicateColumnsLoop(cols, i + 1, (col :> 0) @@ seen,
                                         Append(new_cols, col), ren)

\* DataStructureChecker._handle_duplicate_columns: df.columns is assigned
\* only when something was renamed.
HandleDuplicateColumns(cols) ==
    LET r == HandleDuplicateColumnsLoop(cols, 1, <<>>, <<>>, <<>>) IN
    [columns |-> IF r.renamed # <<>> THEN r.new_cols ELSE cols,
     renamed |-> r.renamed]

\* Bound: the longest list of proposed names.
MaxNames == 3

\* Proposed names: two plain labels and names that already end in _<n>.
NameChoices ==
    { <<"a">>, <<"b">>, <<"a", "_", "1">>, <<"a", "_", "2">>,
      <<"a", "_", "1", "_", "1">> }

DupInit ==
    /\ dupPc = "proposed"
    /\ names \in SeqsUpTo(NameChoices, MaxNames)
    /\ firstPass = <<>>
    /\ secondPass = <<>>
    /\ renamed = <<>>

\* The resolution run at the end of flattening.
ResolveFirst ==
    /\ dupPc = "proposed"
    /\ firstPass' = HandleDuplicateNames(names)
    /\ dupPc' = "resolved"
    /\ UNCHANGED <<names, secondPass, renamed>>
    /\ UNCHANGED <<idVars, hdrVars, flatVars, trimVars, inferVars,
                   encVars, pathVars, readVars, concVars>>

\* The orchestrator's second run, on the columns of the table read.
ResolveAgain ==
    /\ dupPc = "resolved"
    /\ LET r == HandleDuplicateColumns(firstPass) IN
         /\ secondPass' = r.columns
         /\ renamed' = r.renamed
    /\ dupPc' = "done"
    /\ UNCHANGED <<names, firstPass>>
    /\ UNCHANGED <<idVars, hdrVars, flatVars, trimVars, inferVars,
                   encVars, pathVars, readVars, concVars>>

DupNext == ResolveFirst \/ ResolveAgain

DupStart ==
    DupInit /\ IdIdle /\ HdrIdle /\ FlatIdle /\ TrimIdle /\ InferIdle
    /\ EncIdle /\ PathIdle /\ ReadIdle /\ ConcIdle

SpecDup == DupStart /\ [][DupNext]_vars

(***************************************************************************)
(* Claims about the Duplicate Name Resolver                                *)
(***************************************************************************)

Distinct(s) == \A i, j \in 1..Len(s) : i # j => s[i] # s[j]

\* How many times names[i] occurs before position i.
EarlierOccurrences(s, i) == Cardinality({j \in 1..(i - 1) : s[j] = s[i]})

\* C1: the names the resolver returns are pairwise distinct, also when a
\* proposed name already has the form <other name>_<n>.
C1_ResolvedNamesDistinct ==
    dupPc # "proposed" => Distinct(firstPass)

\* C2: resolving the resolver's own output changes no name: the second
\* pass returns its input and renames nothing.
C2_SecondPassRenamesNothing ==
    dupPc = "done" => (secondPass = firstPass /\ renamed = <<>>)

\* C3: the result has the length and order of the input, the first
\* occurrence of a name is unchanged and its k-th later occurrence is
\* <name>_<k>; [a, a, a] gives exactly [a, a_1, a_2].
C3_KthDuplicateSuffixed ==
    dupPc # "proposed" =>
        /\ Len(firstPass) = Len(names)
        /\ \A i \in 1..Len(names) :
             LET k == EarlierOccurrences(names, i) IN
             firstPass[i] = IF k = 0 THEN names[i]
                            ELSE names[i] \o <<"_">> \o <<Digits[k + 1]>>
        /\ (names = << <<"a">>, <<"a">>, <<"a">> >> =>
              firstPass = << <<"a">>, <<"a", "_", "1">>, <<"a", "_", "2">> >>)

\* C3 witness: [a, a, a] has been resolved.
C3_Witness ==
    /\ dupPc = "resolved"
    /\ names = << <<"a">>, <<"a">>, <<"a">> >>
    /\ firstPass = << <<"a">>, <<"a", "_", "1">>, <<"a", "_", "2">> >>

(***************************************************************************)
(* Identifier-like token classifier                                        *)
(***************************************************************************)

\* len(val) < 8 is never identifier-like.
MinIdLength == 8
\* len(val_clean) >= 16 for the hexadecimal test.
HexIdLength == 16
\* len(parts) >= 3 for the hyphenated test.
MinHyphenParts == 3
\* len(val_clean) >= 16 for the long alphanumeric test.
AlnumIdLength == 16

\* Whether int(s, 16) returns instead of raising ValueError: surrounding
\* whitespace, one sign, a 0x or 0X prefix and single underscores between
\* digits (one is allowed after the prefix) are accepted.
HexUnsigned(t) ==
    IF t # <<>> /\ Head(t) \in {"+", "-"} THEN Tail(t) ELSE t
HexPrefixed(unsigned) ==
    Len(unsigned) >= 2 /\ unsigned[1] = "0" /\ unsigned[2] \in {"x", "X"}
HexAfterPrefix(unsigned) ==
    IF HexPrefixed(unsigned) THEN SubSeq(unsigned, 3, Len(unsigned))
    ELSE unsigned
HexDigitsOf(prefixed, afterPre) ==
    IF prefixed /\ afterPre # <<>> /\ Head(afterPre) = "_"
    THEN Tail(afterPre) ELSE afterPre
HexDigitsValid(body) ==
    /\ body # <<>>
    /\ \A i \in 1..Len(body) : body[i] \in HexChars \cup {"_"}
    /\ body[1] # "_"
    /\ body[Len(body)] # "_"
    /\ \A i \in 1..(Len(body) - 1) : ~(body[i] = "_" /\ body[i + 1] = "_")
HexUnsignedParses(unsigned) ==
    HexDigitsValid(HexDigitsOf(HexPrefixed(unsigned), HexAfterPrefix(unsigned)))
IntBase16Parses(s) == HexUnsignedParses(HexUnsigned(Strip(s)))

\* Mutant: the hexadecimal test from 8 characters on, as the docstring has it.
IsIdLikeHexFromEight(v) ==
    IF Len(v) < MinIdLength THEN FALSE
    ELSE LET clean == Strip(v)
             parts == Split(clean, "-")
         IN  IF Len(clean) >= MinIdLength /\ IntBase16Parses(clean) THEN TRUE
             ELSE IF /\ Has(clean, "-")
                     /\ Len(parts) >= MinHyphenParts
                     /\ \A k \in 1..Len(parts) :
                          parts[k] # <<>> => IsAlnum(parts[k])
                  THEN TRUE
             ELSE /\ Len(clean) >= AlnumIdLength
                  /\ IsAlnum(clean)
                  /\ \E i \in 1..Len(clean) : clean[i] \in DigitChars
                  /\ \E i \in 1..Len(clean) : clean[i] \in Letters

\* MultiLevelReader._is_id_like
IsIdLike(v) ==
    IF Len(v) < MinIdLength THEN FALSE
    ELSE LET clean == Strip(v)
             parts == Split(clean, "-")
         IN  IF Len(clean) >= HexIdLength /\ IntBase16Parses(clean) THEN TRUE
             ELSE IF /\ Has(clean, "-")
                     /\ Len(parts) >= MinHyphenParts
                     /\ \A k \in 1..Len(parts) :
                          parts[k] # <<>> => IsAlnum(parts[k])
                  THEN TRUE
             ELSE /\ Len(clean) >= AlnumIdLength
                  /\ IsAlnum(clean)
                  /\ \E i \in 1..Len(clean) : clean[i] \in DigitChars
                  /\ \E i \in 1..Len(clean) : clean[i] \in Letters

\* Bound: a classified string is made of at most this many runs of one
\* character.
MaxRuns == 3

\* The characters of a classified string (a hexadecimal letter, two other
\* letters, two digits, hyphen, underscore, space) and the run lengths,
\* which add up to lengths on both sides of 8 and of 16.
IdChars == {"a", "g", "x", "0", "7", "-", "_", " "}
RunLengths == {1, 7, 14}

RECURSIVE Unrun(_)
Unrun(runs) ==
    IF runs = <<>> THEN <<>>
    ELSE [i \in 1..Head(runs)[2] |-> Head(runs)[1]] \o Unrun(Tail(runs))

IdInit ==
    /\ idPc = "given"
    /\ \E runs \in SeqsUpTo(IdChars \X RunLengths, MaxRuns) : val = Unrun(runs)
    /\ idLike = FALSE

Classify ==
    /\ idPc = "given"
    /\ idLike' = IsIdLike(val)
    /\ idPc' = "classified"
    /\ UNCHANGED val
    /\ UNCHANGED <<dupVars, hdrVars, flatVars, trimVars, inferVars,
                   encVars, pathVars, readVars, concVars>>

IdNext == Classify

IdStart ==
    IdInit /\ DupIdle /\ HdrIdle /\ FlatIdle /\ TrimIdle /\ InferIdle
    /\ EncIdle /\ PathIdle /\ ReadIdle /\ ConcIdle

SpecId == IdStart /\ [][IdNext]_vars

\* A segment list in which every segment is alphanumeric-only.
AllSegmentsAlnum(parts) == \A k \in 1..Len(parts) : IsAlnum(parts[k])
NonEmptySegmentsAlnum(parts) ==
    \A k \in 1..Len(parts) : parts[k] # <<>> => IsAlnum(parts[k])
HasDigitAndLetter(s) ==
    /\ \E i \in 1..Len(s) : s[i] \in DigitChars
    /\ \E i \in 1..Len(s) : s[i] \in Letters

NaN == [kind |-> "nan", text |-> <<"n", "a", "n">>]
Number(digits) == [kind |-> "num", text |-> digits]
Text(chars) == [kind |-> "str", text |-> chars]

\* pd.isna / Series.dropna on one value
IsNa(cell) == cell.kind = "nan"

\* The loop of _analyze_row over row.dropna(): acc counts the numeric
\* values, the strings and the identifier-like strings met so far.
RECURSIVE AnalyzeLoop(_, _, _)
AnalyzeLoop(values, i, acc) ==
    IF i > Len(values) THEN acc
    ELSE LET v == values[i] IN
         IF v.kind = "num"
         THEN AnalyzeLoop(values, i + 1,
                          [acc EXCEPT !.numeric_count = @ + 1])
         ELSE IF v.kind = "str"
         THEN AnalyzeLoop(values, i + 1,
                  [acc EXCEPT !.id_like_count = IF IsIdLike(v.text) THEN @ + 1 ELSE @,
                              !.string_count = @ + 1])
         ELSE AnalyzeLoop(values, i + 1, acc)

\* row.dropna(): the non-null values in order.
RECURSIVE DropNa(_)
DropNa(row) ==
    IF row = <<>> THEN <<>>
    ELSE IF IsNa(Head(row)) THEN DropNa(Tail(row))
         ELSE <<Head(row)>> \o DropNa(Tail(row))

\* MultiLevelReader._analyze_row
AnalyzeRow(row) ==
    [non_null_count |-> Len(DropNa(row))]
    @@ AnalyzeLoop(DropNa(row), 1,
                   [numeric_count |-> 0, string_count |-> 0,
                    id_like_count |-> 0])

\* Mutant: a row filled exactly to one half counts as sparse too.
IsHeaderRowHalfIncluded(row, total_cols) ==
    LET analysis == AnalyzeRow(row) IN
    \/ analysis.numeric_count = 0 /\ analysis.id_like_count = 0
    \/ 2 * analysis.non_null_count <= total_cols /\ analysis.numeric_count = 0

\* The header test of one row in _detect_header_rows: is_header after the
\* sparse-row rule; fill_ratio < 0.5 is 2 * non_null_count < total_cols.
IsHeaderRow(row, total_cols) ==
    LET analysis == AnalyzeRow(row) IN
    \/ analysis.numeric_count = 0 /\ analysis.id_like_count = 0
    \/ 2 * analysis.non_null_count < total_cols /\ analysis.numeric_count = 0

Min(a, b) == IF a < b THEN a ELSE b
Max(a, b) == IF a > b THEN a ELSE b

\* DataFrame.empty: no row or no column.
IsEmpty(raw_df) == Len(raw_df.rows) = 0 \/ raw_df.ncols = 0

\* The scan of _detect_header_rows: row_idx (from 0) runs over
\* range(min(max_header_rows, len(raw_df))) and stops at the first row
\* that is not a header.
RECURSIVE DetectLoop(_, _, _, _)
DetectLoop(raw_df, limit, row_idx, header_candidates) ==
    IF row_idx >= limit THEN header_candidates
    ELSE IF IsHeaderRow(raw_df.rows[row_idx + 1], raw_df.ncols)
         THEN DetectLoop(raw_df, limit, row_idx + 1,
                         Append(header_candidates, row_idx))
         ELSE header_candidates

\* Mutant: without the fallback to row 0 when no row passes.
DetectHeaderRowsNoFallback(raw_df, max_header_rows) ==
    IF IsEmpty(raw_df) THEN <<0>>
    ELSE DetectLoop(raw_df, Min(max_header_rows, Len(raw_df.rows)), 0, <<>>)

\* MultiLevelReader._detect_header_rows
OrRowZero(header_candidates) ==
    IF header_candidates = <<>> THEN <<0>> ELSE header_candidates
DetectHeaderRows(raw_df, max_header_rows) ==
    IF IsEmpty(raw_df) THEN <<0>>
    ELSE OrRowZero(DetectLoop(raw_df,
                       Min(max_header_rows, Len(raw_df.rows)), 0, <<>>))

\* Bound: the most cells (rows times columns) of a raw grid.
MaxCells == 6

\* max_header_rows: int = 5
DefaultMaxHeaderRows == 5

\* The max_header_rows settings tried.
HeaderRowSettings == {-1, 0, 1, 2, DefaultMaxHeaderRows}

\* The cells of a raw grid: empty, a number, a label, a hyphenated code.
GridCells ==
    { NaN, Number(<<"1">>), Text(<<"N", "a", "m", "e">>),
      Text(<<"7", "a", "-", "7", "a", "-", "7", "a">>) }

\* The shapes <<rows, columns>> of the raw grids: at most MaxCells cells.
GridShapes ==
    { rc \in (0..MaxCells) \X (0..MaxCells) : rc[1] * rc[2] <= MaxCells }

HdrInit ==
    /\ hdrPc = "read"
    /\ \E rc \in GridShapes :
         \E rs \in [1..rc[1] -> [1..rc[2] -> GridCells]] :
            rawDf = [ncols |-> rc[2], rows |-> rs]
    /\ maxHeaderRows \in HeaderRowSettings
    /\ headerRows = <<>>

\* header_rows = self._detect_header_rows(raw_df)
DetectHeaders ==
    /\ hdrPc = "read"
    /\ headerRows' = DetectHeaderRows(rawDf, maxHeaderRows)
    /\ hdrPc' = "detected"
    /\ UNCHANGED <<rawDf, maxHeaderRows>>
    /\ UNCHANGED <<dupVars, idVars, flatVars, trimVars, inferVars,
                   encVars, pathVars, readVars, concVars>>

HdrNext == DetectHeaders

HdrStart ==
    HdrInit /\ DupIdle /\ IdIdle /\ FlatIdle /\ TrimIdle /\ InferIdle
    /\ EncIdle /\ PathIdle /\ ReadIdle /\ ConcIdle

SpecHdr == HdrStart /\ [][HdrNext]_vars

\* Cell counts of a row as the claims name them.
NonNullCells(row) == Cardinality({j \in 1..Len(row) : row[j].kind # "nan"})
NumericCells(row) == Cardinality({j \in 1..Len(row) : row[j].kind = "num"})
IdLikeCells(row) ==
    Cardinality({j \in 1..Len(row) : row[j].kind = "str" /\ IsIdLike(row[j].text)})

\* The header test of C5 on row i (counted from 0) of the raw grid.
PassesHeaderTest(i) ==
    LET row == rawDf.rows[i + 1] IN
    \/ NumericCells(row) = 0 /\ IdLikeCells(row) = 0
    \/ 2 * NonNullCells(row) < rawDf.ncols /\ NumericCells(row) = 0

\* C4: header detection returns a non-empty list 0, 1, ..., k of at most
\* max(1, min(max_header_rows, number of rows)) indices, for every grid,
\* the empty one included.
C4_HeaderRowsContiguousFromZero ==
    hdrPc = "detected" =>
        /\ Len(headerRows) >= 1
        /\ \A i \in 1..Len(headerRows) : headerRows[i] = i - 1
        /\ Len(headerRows) <= Max(1, Min(maxHeaderRows, Len(rawDf.rows)))

\* C4 witness: a grid of three rows with max_header_rows = 2 gave [0, 1].
C4_Witness ==
    /\ hdrPc = "detected"
    /\ Len(rawDf.rows) = 3
    /\ maxHeaderRows = 2
    /\ headerRows = <<0, 1>>

None == [kind |-> "none", text |-> <<>>]

\* 'Unnamed:'
UnnamedPrefix == <<"U", "n", "n", "a", "m", "e", "d", ":">>

\* pd.isna(name) or (isinstance(name, str) and name.startswith('Unnamed:'))
IsUnnamed(name) ==
    IsNa(name) \/ (name.kind = "str" /\ StartsWith(name.text, UnnamedPrefix))

\* The inner loop of _flatten_columns over the levels of one column tuple:
\* names collects, per level, the name left after the forward-fill (None
\* when there is none), prev_names is updated on the way.
RECURSIVE LevelLoop(_, _, _, _)
LevelLoop(col_tuple, prev_names, level_idx, used) ==
    IF level_idx > Len(col_tuple)
    THEN [prev_names |-> prev_names, names |-> used]
    ELSE LET name == col_tuple[level_idx] IN
         IF IsUnnamed(name)
         THEN LevelLoop(col_tuple, prev_names, level_idx + 1,
                        Append(used, prev_names[level_idx]))
         ELSE LevelLoop(col_tuple, [prev_names EXCEPT ![level_idx] = name],
                        level_idx + 1, Append(used, name))

\* Mutant: the names remembered from the columns before are not used.
FillLevelsForgetful(col_tuple, prev_names) ==
    LevelLoop(col_tuple, [l \in 1..Len(col_tuple) |-> None], 1, <<>>)

\* The forward-fill of one column tuple (the loop over its levels).
FillLevels(col_tuple, prev_names) == LevelLoop(col_tuple, prev_names, 1, <<>>)

\* parts: str(name).strip() of every level whose name is not None.
RECURSIVE PartsOf(_)
PartsOf(used) ==
    IF used = <<>> THEN <<>>
    ELSE IF Head(used) = None THEN PartsOf(Tail(used))
         ELSE <<Strip(Head(used).text)>> \o PartsOf(Tail(used))

\* Mutant: every part is kept.
UniquePartsKeepAll(parts) == parts

\* unique_parts: a part equal to the one kept last is dropped.
RECURSIVE UniquePartsLoop(_, _)
UniquePartsLoop(parts, unique_parts) ==
    IF parts = <<>> THEN unique_parts
    ELSE IF unique_parts = <<>> \/ unique_parts[Len(unique_parts)] # Head(parts)
         THEN UniquePartsLoop(Tail(parts), Append(unique_parts, Head(parts)))
         ELSE UniquePartsLoop(Tail(parts), unique_parts)
UniqueParts(parts) == UniquePartsLoop(parts, <<>>)

\* sep.join(parts)
RECURSIVE Join(_, _)
Join(parts, sep) ==
    IF parts = <<>> THEN <<>>
    ELSE IF Len(parts) = 1 THEN parts[1]
         ELSE parts[1] \o sep \o Join(Tail(parts), sep)

\* f"Column_{n}"
ColumnPlaceholder(n) == <<"C", "o", "l", "u", "m", "n", "_">> \o IntToStr(n)

\* The outer loop of _flatten_columns over the column tuples; flattened is
\* the list built so far, levels the per-level names of each column.
RECURSIVE FlattenLoop(_, _, _, _, _, _)
FlattenLoop(tuples, sep, c, prev_names, flattened, levels) ==
    IF c > Len(tuples) THEN [flattened |-> flattened, levels |-> levels]
    ELSE LET filled       == FillLevels(tuples[c], prev_names)
             unique_parts == UniqueParts(PartsOf(filled.names))
             col_name     == IF unique_parts # <<>> THEN Join(unique_parts, sep)
                             ELSE ColumnPlaceholder(Len(flattened))
         IN  FlattenLoop(tuples, sep, c + 1, filled.prev_names,
                         Append(flattened, col_name),
                         Append(levels, filled.names))

\* _flatten_columns up to the duplicate handling.
FlattenProposed(cols, sep) ==
    FlattenLoop(cols.tuples, sep, 1, [l \in 1..cols.nlevels |-> None], <<>>, <<>>)

\* MultiLevelReader._flatten_columns
FlattenColumns(cols, sep) ==
    HandleDuplicateNames(FlattenProposed(cols, sep).flattened)

\* The loop of _clean_column_names over a single-level column index.
RECURSIVE CleanLoop(_, _, _)
CleanLoop(tuples, c, cleaned) ==
    IF c > Len(tuples) THEN cleaned
    ELSE LET col == tuples[c][1] IN
         IF IsUnnamed(col)
         THEN CleanLoop(tuples, c + 1,
                        Append(cleaned, ColumnPlaceholder(Len(cleaned))))
         ELSE CleanLoop(tuples, c + 1, Append(cleaned, Strip(col.text)))

CleanProposed(cols) == CleanLoop(cols.tuples, 1, <<>>)

\* MultiLevelReader._clean_column_names
CleanColumnNames(cols) == HandleDuplicateNames(CleanProposed(cols))

\* isinstance(df.columns, pd.MultiIndex)
IsMultiIndex(cols) == cols.nlevels > 1

\* Bounds: the most cells (levels times columns), the most levels and the
\* most columns of a header block.
MaxHeaderCells == 6
MaxLevels == 3
MaxHeaderCols == 3

\* The cells of a header: empty, the placeholder pandas gives an empty
\* header cell, two labels, whitespace-only text.
HeaderCells ==
    { NaN,
      Text(<<"U", "n", "n", "a", "m", "e", "d", ":", " ", "1">>),
      Text(<<"G", "r", "o", "u", "p">>),
      Text(<<"C", "o", "d", "e">>),
      Text(<<" ">>) }

\* The shapes <<levels, columns>> of the header blocks.
HeaderShapes ==
    { lc \in (1..MaxLevels) \X (0..MaxHeaderCols) :
        lc[1] * lc[2] <= MaxHeaderCells }

\* separator: str = '_', and another one.
Separators == { <<"_">>, <<"/">> }

FlatInit ==
    /\ flatPc = "read"
    /\ \E lc \in HeaderShapes :
         \E ts \in [1..lc[2] -> [1..lc[1] -> HeaderCells]] :
            columns = [nlevels |-> lc[1], tuples |-> ts]
    /\ separator \in Separators
    /\ levelNames = <<>>
    /\ proposed = <<>>
    /\ colNames = <<>>

\* read: a MultiIndex is flattened, a single-level index is cleaned.
FlattenMulti ==
    /\ flatPc = "read"
    /\ IsMultiIndex(columns)
    /\ LET flat == FlattenProposed(columns, separator) IN
         /\ levelNames' = flat.levels
         /\ proposed' = flat.flattened
    /\ colNames' = FlattenColumns(columns, separator)
    /\ flatPc' = "flattened"
    /\ UNCHANGED <<columns, separator>>
    /\ UNCHANGED <<dupVars, idVars, hdrVars, trimVars, inferVars,
                   encVars, pathVars, readVars, concVars>>

CleanSingle ==
    /\ flatPc = "read"
    /\ ~IsMultiIndex(columns)
    /\ levelNames' = <<>>
    /\ proposed' = CleanProposed(columns)
    /\ colNames' = CleanColumnNames(columns)
    /\ flatPc' = "flattened"
    /\ UNCHANGED <<columns, separator>>
    /\ UNCHANGED <<dupVars, idVars, hdrVars, trimVars, inferVars,
                   encVars, pathVars, readVars, concVars>>

FlatNext == FlattenMulti \/ CleanSingle

FlatStart ==
    FlatInit /\ DupIdle /\ IdIdle /\ HdrIdle /\ TrimIdle /\ InferIdle
    /\ EncIdle /\ PathIdle /\ ReadIdle /\ ConcIdle

SpecFlat == FlatStart /\ [][FlatNext]_vars

(***************************************************************************)
(* Claims about the Header Flattener                                       *)
(***************************************************************************)

\* The cell of column c (from 1) at level l (from 1) of the header block.
HeaderCell(c, l) == columns.tuples[c][l]

\* The columns before c whose level-l cell is neither null nor an
\* 'Unnamed:' placeholder.
NamedBefore(c, l) == {d \in 1..(c - 1) : ~IsUnnamed(HeaderCell(d, l))}

Greatest(S) == CHOOSE x \in S : \A y \in S : y <= x

\* The parts of column c: the names its levels yield, top to bottom.
ColumnParts(c) ==
    LET used == levelNames[c]
        kept == {l \in 1..Len(used) : used[l] # None}
        nth(k) == CHOOSE l \in kept : Cardinality({m \in kept : m < l}) = k - 1
    IN  [k \in 1..Cardinality(kept) |-> Strip(used[nth(k)].text)]

\* A part sequence with every run of adjacent equal parts cut to one part.
Collapsed(parts) ==
    LET firsts == {i \in 1..Len(parts) : i = 1 \/ parts[i] # parts[i - 1]}
        nth(k) == CHOOSE i \in firsts : Cardinality({m \in firsts : m < i}) = k - 1
    IN  [k \in 1..Cardinality(firsts) |-> parts[nth(k)]]

Group == <<"G", "r", "o", "u", "p">>
Code == <<"C", "o", "d", "e">>

\* C7: in multi-row flattening a level whose cell is null or an 'Unnamed:'
\* placeholder takes the value of the nearest earlier column whose cell at
\* that level is neither; with no such column the level yields nothing.
C7_ForwardFillNearestPreceding ==
    (flatPc = "flattened" /\ IsMultiIndex(columns)) =>
        \A c \in 1..Len(columns.tuples) : \A l \in 1..columns.nlevels :
            IsUnnamed(HeaderCell(c, l)) =>
                IF NamedBefore(c, l) = {}
                THEN levelNames[c][l] = None
                ELSE levelNames[c][l] = HeaderCell(Greatest(NamedBefore(c, l)), l)

\* C7 witness: a third column with an empty cell was filled from the first
\* column across an empty second one.
C7_Witness ==
    /\ flatPc = "flattened"
    /\ IsMultiIndex(columns)
    /\ Len(columns.tuples) = 3
    /\ HeaderCell(1, 1) = Text(Group)
    /\ IsUnnamed(HeaderCell(2, 1))
    /\ IsUnnamed(HeaderCell(3, 1))
    /\ levelNames[3][1] = Text(Group)

\* C8: the name proposed for a column is its parts, top to bottom, with
\* runs of adjacent equal parts collapsed, joined by the separator;
\* [Group, null] over [Group, Code] gives Group and Group_Code.
C8_JoinCollapsedParts ==
    (flatPc = "flattened" /\ IsMultiIndex(columns)) =>
        /\ \A c \in 1..Len(columns.tuples) :
             ColumnParts(c) # <<>> =>
                proposed[c] = Join(Collapsed(ColumnParts(c)), separator)
        /\ (/\ columns.tuples = << <<Text(Group), Text(Group)>>,
                                   <<NaN, Text(Code)>> >>
            /\ separator = <<"_">>)
           => colNames = << Group, Group \o <<"_">> \o Code >>

\* C8 witness: the header [Group, null] over [Group, Code] was flattened.
C8_Witness ==
    /\ flatPc = "flattened"
    /\ columns.tuples = << <<Text(Group), Text(Group)>>, <<NaN, Text(Code)>> >>
    /\ separator = <<"_">>
    /\ colNames = << Group, <<"G", "r", "o", "u", "p", "_", "C", "o", "d", "e">> >>

\* C9: the flattener returns one name per column, every name is a
\* non-empty string, and a column none of whose levels yields anything is
\* named Column_<column index>.
C9_NamesNonEmpty ==
    flatPc = "flattened" =>
        /\ Len(colNames) = Len(columns.tuples)
        /\ \A c \in 1..Len(colNames) : colNames[c] # <<>>
        /\ \A c \in 1..Len(colNames) :
             (\A l \in 1..columns.nlevels :
                 IsUnnamed(HeaderCell(c, l))
                 /\ (IsMultiIndex(columns) => NamedBefore(c, l) = {}))
             => proposed[c] = ColumnPlaceholder(c - 1)

(***************************************************************************)
(* Grid Trimmer                                                            *)
(***************************************************************************)

\* The positions from i on at which the boolean mask is true, in
\* increasing order.
RECURSIVE KeptIndices(_, _)
KeptIndices(mask, i) ==
    IF i > Len(mask) THEN <<>>
    ELSE IF mask[i] THEN <<i>> \o KeptIndices(mask, i + 1)
         ELSE KeptIndices(mask, i + 1)

\* df.dropna(how='all'): the rows with at least one non-null value stay.
DropEmptyRows(t) ==
    LET mask == [i \in 1..Len(t.rows) |->
                    \E j \in 1..Len(t.rows[i]) : ~IsNa(t.rows[i][j])]
        kept == KeptIndices(mask, 1)
    IN  [columns |-> t.columns,
         rows    |-> [k \in 1..Len(kept) |-> t.rows[kept[k]]]]

\* df.dropna(axis=1, how='all'): the columns with at least one non-null
\* value stay, with their names.
DropEmptyColumns(t) ==
    LET mask == [j \in 1..Len(t.columns) |->
                    \E i \in 1..Len(t.rows) : ~IsNa(t.rows[i][j])]
        kept == KeptIndices(mask, 1)
    IN  [columns |-> [k \in 1..Len(kept) |-> t.columns[kept[k]]],
         rows    |-> [i \in 1..Len(t.rows) |->
                        [k \in 1..Len(kept) |-> t.rows[i][kept[k]]]]]

\* Mutant: the pass over the columns is left out.
TrimEmptyRowsOnly(t) ==
    LET no_rows == DropEmptyRows(t) IN
    [df            |-> no_rows,
     rows_removed  |-> Len(t.rows) - Len(no_rows.rows),
     cols_removed  |-> 0]

\* DataStructureChecker._trim_empty: rows first, then columns of the
\* result; both counts are taken against the original shape.
TrimEmpty(t) ==
    LET no_rows == DropEmptyRows(t)
        no_cols == DropEmptyColumns(no_rows)
    IN  [df            |-> no_cols,
         rows_removed  |-> Len(t.rows) - Len(no_rows.rows),
         cols_removed  |-> Len(t.columns) - Len(no_cols.columns)]

\* Bound: the most cells (rows times columns) of a data body.
MaxBodyCells == 6

\* The shapes <<rows, columns>> of the data bodies.
BodyShapes ==
    { rc \in (0..MaxBodyCells) \X (0..MaxBodyCells) :
        rc[1] * rc[2] <= MaxBodyCells }

\* The cells of a data body: empty, a number, a text.
BodyCells == { NaN, Number(<<"1">>), Text(<<"x">>) }

\* The name of the column at position j of the table read: c0, c1, ...
BodyColumnName(j) == <<"c">> \o IntToStr(j - 1)

TrimInit ==
    /\ trimPc = "read"
    /\ \E rc \in BodyShapes :
         \E rs \in [1..rc[1] -> [1..rc[2] -> BodyCells]] :
            df = [columns |-> [j \in 1..rc[2] |-> BodyColumnName(j)],
                  rows    |-> rs]
    /\ trimmed = [columns |-> <<>>, rows |-> <<>>]
    /\ rowsRemoved = 0
    /\ colsRemoved = 0

\* df = self._trim_empty(df)
Trim ==
    /\ trimPc = "read"
    /\ LET r == TrimEmpty(df) IN
         /\ trimmed' = r.df
         /\ rowsRemoved' = r.rows_removed
         /\ colsRemoved' = r.cols_removed
    /\ trimPc' = "trimmed"
    /\ UNCHANGED df
    /\ UNCHANGED <<dupVars, idVars, hdrVars, flatVars, inferVars,
                   encVars, pathVars, readVars, concVars>>

TrimNext == Trim

TrimStart ==
    TrimInit /\ DupIdle /\ IdIdle /\ HdrIdle /\ FlatIdle /\ InferIdle
    /\ EncIdle /\ PathIdle /\ ReadIdle /\ ConcIdle

SpecTrim == TrimStart /\ [][TrimNext]_vars

\* A row, or the column at position j of a table, that holds only nulls.
RowAllNull(row) == \A j \in 1..Len(row) : row[j].kind = "nan"
ColumnAllNull(t, j) == \A i \in 1..Len(t.rows) : t.rows[i][j].kind = "nan"

\* The position in the table read of the column named n.
PositionOf(n) == CHOOSE j \in 1..Len(df.columns) : df.columns[j] = n

\* C10: after trimming no remaining row and no remaining column is
\* entirely null; the names of the surviving columns are names of the table
\* read, unchanged and in their order, each still over its own values, and
\* no column holding a value has lost its name.
C10_NothingEmptyLeftNamesKept ==
    trimPc = "trimmed" =>
        /\ \A i \in 1..Len(trimmed.rows) : ~RowAllNull(trimmed.rows[i])
        /\ \A k \in 1..Len(trimmed.columns) : ~ColumnAllNull(trimmed, k)
        /\ \A k \in 1..Len(trimmed.columns) :
             /\ \E j \in 1..Len(df.columns) : df.columns[j] = trimmed.columns[k]
             /\ k > 1 => PositionOf(trimmed.columns[k - 1])
                           < PositionOf(trimmed.columns[k])
        /\ \A i \in 1..Len(trimmed.rows) :
             \E h \in 1..Len(df.rows) :
                \A k \in 1..Len(trimmed.columns) :
                   trimmed.rows[i][k] = df.rows[h][PositionOf(trimmed.columns[k])]
        /\ \A j \in 1..Len(df.columns) :
             ~ColumnAllNull(df, j) =>
                \E k \in 1..Len(trimmed.columns) : trimmed.columns[k] = df.columns[j]

\* C10 witness: a body with an entirely null row and an entirely null
\* column was trimmed to a smaller, non-empty table.
C10_Witness ==
    /\ trimPc = "trimmed"
    /\ \E i \in 1..Len(df.rows) : RowAllNull(df.rows[i])
    /\ \E j \in 1..Len(df.columns) : ColumnAllNull(df, j)
    /\ rowsRemoved = 1
    /\ colsRemoved = 1
    /\ Len(trimmed.rows) >= 1
    /\ trimmed.columns = << <<"c", "1">> >>

(***************************************************************************)
(* Type Inferrer                                                           *)
(***************************************************************************)

\* A formatted message (an f-string) is kept as the sequence of its pieces,
\* the numbers in it formatted with str().

\* self._report as smart_read sets it up at the start of a call (the
\* timestamp is left out: nothing reads it).
NewReport(file_path) ==
    [file_path          |-> file_path,
     issues_detected    |-> <<>>,
     fixes_applied      |-> <<>>,
     original_shape     |-> None,
     final_shape        |-> None,
     encoding_used      |-> None,
     header_rows        |-> None,
     columns_renamed    |-> <<>>,
     empty_rows_removed |-> 0,
     empty_cols_removed |-> 0,
     type_conversions   |-> <<>>]

\* Mutant: the issue is appended and the fix is not.
RecordIssueOnly(report, issue, fix) ==
    [report EXCEPT !.issues_detected = Append(@, issue)]

\* self._report['issues_detected'].append(issue) followed by
\* self._report['fixes_applied'].append(fix)
Record(report, issue, fix) ==
    [report EXCEPT !.issues_detected = Append(@, issue),
                   !.fixes_applied = Append(@, fix)]

\* A missing temporal value; pd.isna(NaT) is true.
NaT == NaN

\* A parsed temporal value.
Timestamp(chars) == [kind |-> "date", text |-> chars]

IsDigits(s) == s # <<>> /\ \A i \in 1..Len(s) : s[i] \in DigitChars

\* int(s) for a string of decimal digits.
RECURSIVE StrToInt(_)
StrToInt(s) ==
    IF s = <<>> THEN 0
    ELSE 10 * StrToInt(SubSeq(s, 1, Len(s) - 1))
         + (CHOOSE d \in 0..9 : Digits[d + 1] = s[Len(s)])

\* s without a leading sign.
Unsigned(s) == IF s # <<>> /\ Head(s) \in {"+", "-"} THEN Tail(s) ELSE s

\* The characters of an unsigned decimal literal.
DecimalChars == DigitChars \cup {"."}

\* The decimal literals pd.to_numeric parses: surrounding whitespace, an
\* optional sign, digits with at most one decimal point among them.
ParsesNumber(text) ==
    LET s == Unsigned(Strip(text)) IN
    /\ \A i \in 1..Len(s) : s[i] \in DecimalChars
    /\ \E i \in 1..Len(s) : s[i] \in DigitChars
    /\ \A i, k \in 1..Len(s) : (s[i] = "." /\ s[k] = ".") => i = k

\* A literal that parses to an integer.
ParsesInteger(text) == IsDigits(Unsigned(Strip(text)))

\* pd.to_numeric(df[col], errors='coerce') on one value: a number stays, a
\* str that parses becomes a number, everything else becomes NaN.
ToNumericValue(cell) ==
    IF cell.kind = "num" THEN cell
    ELSE IF cell.kind = "str" /\ ParsesNumber(cell.text)
         THEN Number(Strip(cell.text))
         ELSE NaN

ToNumeric(values) == [i \in 1..Len(values) |-> ToNumericValue(values[i])]

\* The dtype of the Series to_numeric returns: int64 when every value is an
\* integer, float64 as soon as one is missing or has a fraction.
NumericDtype(values) ==
    IF \A i \in 1..Len(values) :
          /\ values[i].kind = "num"
          /\ ParsesInteger(values[i].text)
    THEN "int64" ELSE "float64"

\* pd.notna on one value
NotNa(cell) == ~IsNa(cell)

\* Series.dropna(): the non-missing values in order.
SeriesDropNa(values) == SelectSeq(values, NotNa)

\* Series.notna().sum()
NotNaSum(values) == Len(SeriesDropNa(values))

\* 2^27: half of the exponent of the double comparison below.
TwoPow27 == 134217728

\* Mutant: the threshold is inclusive.
RatioAtLeastThreshold(p, n) == 5 * p >= 4 * n

\* (non_null_numeric / non_null_original) > 0.8 in IEEE-754 doubles, for
\* 0 <= p and 0 < n.  The literal 0.8 is the double D = 7205759403792794 /
\* 2^53, whose mantissa is even, so the correctly rounded quotient p / n
\* is greater than D iff p / n > D + 2^-54 = (4 * 2^54 + 9) / (5 * 2^54),
\* that is iff (5p - 4n) * 2^54 > 9n.
RatioExceedsThreshold(p, n) ==
    LET d == 5 * p - 4 * n IN
    d > 0 /\ ((9 * n) \div d) \div TwoPow27 < TwoPow27

\* series.dropna().head(10): the size of the sample.
SampleSize == 10

\* The separators of the date patterns.
DashOrSlash == {"-", "/"}
Dot == {"."}
DateSeps == DashOrSlash \cup Dot

\* The positions a run of lo..hi digits starting at position i can end
\* before (\d{lo,hi}).
DigitRun(s, i, lo, hi) ==
    { j \in (i + lo)..(i + hi) :
        j - 1 <= Len(s) /\ \A k \in i..(j - 1) : s[k] \in DigitChars }

\* re.match of three digit runs of the given lengths with a separator of
\* seps after the first and after the second; the match is anchored at the
\* start only.
MatchesPattern(s, lo1, hi1, lo2, hi2, lo3, hi3, seps) ==
    \E j1 \in DigitRun(s, 1, lo1, hi1) :
        /\ j1 <= Len(s) /\ s[j1] \in seps
        /\ \E j2 \in DigitRun(s, j1 + 1, lo2, hi2) :
              /\ j2 <= Len(s) /\ s[j2] \in seps
              /\ DigitRun(s, j2 + 1, lo3, hi3) # {}

\* any(re.match(pattern, val.strip()) for pattern in date_patterns)
DateShaped(text) ==
    LET s == Strip(text) IN
    \/ MatchesPattern(s, 4, 4, 1, 2, 1, 2, DashOrSlash)
    \/ MatchesPattern(s, 1, 2, 1, 2, 4, 4, DashOrSlash)
    \/ MatchesPattern(s, 4, 4, 1, 2, 1, 2, Dot)

\* series.dropna().head(10)
Sample(values) ==
    LET present == SeriesDropNa(values) IN
    SubSeq(present, 1, Min(SampleSize, Len(present)))

\* DataStructureChecker._looks_like_date
LooksLikeDate(values) ==
    LET sample == Sample(values) IN
    /\ Len(sample) # 0
    /\ \E i \in 1..Len(sample) :
          sample[i].kind = "str" /\ DateShaped(sample[i].text)

\* The days of month m of year y.
DaysInMonth(y, m) ==
    IF m \in {4, 6, 9, 11} THEN 30
    ELSE IF m # 2 THEN 31
    ELSE IF (y % 4 = 0 /\ y % 100 # 0) \/ y % 400 = 0 THEN 29 ELSE 28

ValidDate(y, m, d) == m \in 1..12 /\ d \in 1..DaysInMonth(y, m)

\* The dates pd.to_datetime parses among the texts of three digit runs:
\* year-month-day, or month and day in either order before a 4-digit year.
ParsesDate(text) ==
    \E sep \in DateSeps :
        LET parts == Split(Strip(text), sep) IN
        /\ Len(parts) = 3
        /\ \A i \in 1..3 : IsDigits(parts[i])
        /\ LET a == StrToInt(parts[1])
               b == StrToInt(parts[2])
               c == StrToInt(parts[3])
           IN  \/ /\ Len(parts[1]) = 4 /\ Len(parts[2]) <= 2 /\ Len(parts[3]) <= 2
                  /\ ValidDate(a, b, c)
               \/ /\ Len(parts[1]) <= 2 /\ Len(parts[2]) <= 2 /\ Len(parts[3]) = 4
                  /\ (ValidDate(c, a, b) \/ ValidDate(c, b, a))

\* pd.to_datetime(df[col], errors='coerce') on one value.
ToDatetimeValue(cell) ==
    IF cell.kind = "str" /\ ParsesDate(cell.text)
    THEN Timestamp(Strip(cell.text))
    ELSE NaT

ToDatetime(values) == [i \in 1..Len(values) |-> ToDatetimeValue(values[i])]

\* The dtypes _infer_types passes over.
SkippedDtypes == {"int64", "float64", "datetime64[ns]"}

\* The body of the loop of _infer_types for one column: the column after
\* it and the description added to conversions for it, if any.
InferColumn(col) ==
    IF col.dtype \in SkippedDtypes THEN [col |-> col, conversion |-> <<>>]
    ELSE IF col.dtype # "object" THEN [col |-> col, conversion |-> <<>>]
    ELSE
    LET numeric_col       == ToNumeric(col.values)
        non_null_original == NotNaSum(col.values)
        non_null_numeric  == NotNaSum(numeric_col)
    IN  IF non_null_original > 0
           /\ RatioExceedsThreshold(non_null_numeric, non_null_original)
        THEN LET dtype == NumericDtype(numeric_col) IN
             [col |-> [col EXCEPT !.values = numeric_col, !.dtype = dtype],
              conversion |-> << <<col.dtype, " -> ", dtype>> >>]
        ELSE IF LooksLikeDate(col.values)
        THEN LET parsed == ToDatetime(col.values) IN
             [col |-> [col EXCEPT !.values = parsed,
                                  !.dtype = "datetime64[ns]"],
              conversion |-> IF NotNaSum(parsed) > 0
                             THEN << <<col.dtype, " -> datetime64">> >>
                             ELSE <<>>]
        ELSE [col |-> col, conversion |-> <<>>]

\* The loop of _infer_types over df.columns; conversions is the dict built
\* so far, as the list of its (column, description) items.
RECURSIVE InferLoop(_, _, _, _)
InferLoop(cols, i, out, conversions) ==
    IF i > Len(cols) THEN [df |-> out, conversions |-> conversions]
    ELSE LET r == InferColumn(cols[i]) IN
         InferLoop(cols, i + 1, Append(out, r.col),
                   conversions
                   \o [k \in 1..Len(r.conversion) |->
                          <<cols[i].name, r.conversion[k]>>])

\* DataStructureChecker._infer_types
InferReported(r, report) ==
    [df     |-> r.df,
     report |-> IF r.conversions # <<>>
                THEN [Record(report, "type_inference",
                             <<"Converted data types for ",
                               IntToStr(Len(r.conversions)), " columns">>)
                      EXCEPT !.type_conversions = r.conversions]
                ELSE report]
InferTypes(cols, report) == InferReported(InferLoop(cols, 1, <<>>, <<>>), report)

\* Bound: the most run cells (runs of rows times columns) of a table.
MaxRunCells == 3

\* The shapes <<runs, columns>> of the tables.
InferShapes ==
    { nk \in (0..MaxRunCells) \X (0..MaxRunCells) :
        nk[1] * nk[2] <= MaxRunCells }

\* Bound: the most rows of a table.
MaxRows == 100

\* x[1] + ... + x[Len(x)]
RECURSIVE Sum(_)
Sum(x) == IF x = <<>> THEN 0 ELSE Head(x) + Sum(Tail(x))

\* The numbers of equal consecutive rows: they add up to 100 with 81 or
\* with 80 rows alike, and reach past the sample of 10.
RunCounts == {1, 19, 80}

\* The values of a column: missing, a number as text, a plain text, a date
\* and a date-shaped text that is no date.
InferCells ==
    { NaN, Text(<<"1", "2">>), Text(<<"x">>),
      Text(<<"2", "0", "2", "4", "-", "0", "1", "-", "1", "5">>),
      Text(<<"2", "0", "2", "4", "-", "1", "3", "-", "4", "5">>) }

\* The dtype pandas gives a column read from a file: float64 or object
\* when it holds no value, object when it holds text.
ReadDtypes(values) ==
    IF \A i \in 1..Len(values) : IsNa(values[i])
    THEN {"float64", "object"} ELSE {"object"}

InferInit ==
    /\ inferPc = "read"
    /\ \E nk \in InferShapes :
         \E counts \in [1..nk[1] -> RunCounts] :
            \E cells \in [1..nk[2] -> [1..nk[1] -> InferCells]] :
               \E dtypes \in [1..nk[2] -> {"float64", "object"}] :
                  /\ Sum(counts) <= MaxRows
                  /\ \A j \in 1..nk[2] : dtypes[j] \in ReadDtypes(cells[j])
                  /\ inferDf =
                        [j \in 1..nk[2] |->
                           [name   |-> BodyColumnName(j),
                            dtype  |-> dtypes[j],
                            values |-> Unrun([i \in 1..nk[1] |->
                                                <<cells[j][i], counts[i]>>])]]
    /\ inferred = [df |-> <<>>, report |-> NewReport(<<"f">>)]
    /\ inferReport = NewReport(<<"f">>)

\* df = self._infer_types(df)
Infer ==
    /\ inferPc = "read"
    /\ inferred' = InferTypes(inferDf, inferReport)
    /\ inferPc' = "inferred"
    /\ UNCHANGED <<inferDf, inferReport>>
    /\ UNCHANGED <<dupVars, idVars, hdrVars, flatVars, trimVars,
                   encVars, pathVars, readVars, concVars>>

InferNext == Infer

InferStart ==
    InferInit /\ DupIdle /\ IdIdle /\ HdrIdle /\ FlatIdle /\ TrimIdle
    /\ EncIdle /\ PathIdle /\ ReadIdle /\ ConcIdle

SpecInfer == InferStart /\ [][InferNext]_vars

\* The value at position i of the column at position j of the table given
\* is not missing, and it parses as a number.
IsNonMissing(j, i) == ~IsNa(inferDf[j].values[i])
IsNumberParseable(j, i) ==
    /\ IsNonMissing(j, i)
    /\ \/ inferDf[j].values[i].kind = "num"
       \/ ParsesNumber(inferDf[j].values[i].text)

NonMissing(j) == { i \in 1..Len(inferDf[j].values) : IsNonMissing(j, i) }
NumberParseable(j) ==
    { i \in 1..Len(inferDf[j].values) : IsNumberParseable(j, i) }

\* The column at position j was converted to numeric: its dtype is numeric,
\* the values that parse are numbers and the others are missing.
ConvertedToNumeric(j) ==
    /\ inferred.df[j].dtype \in {"int64", "float64"}
    /\ \A i \in 1..Len(inferDf[j].values) :
          IF IsNumberParseable(j, i)
          THEN inferred.df[j].values[i].kind = "num"
          ELSE IsNa(inferred.df[j].values[i])

\* C11: a textual column with n > 0 non-missing values of which p parse as
\* numbers is converted to numeric iff 5 * p > 4 * n (81 of 100 converts,
\* 80 of 100 does not); a column with no non-missing value is never
\* converted to numeric.
C11_NumericIffAboveFourFifths ==
    inferPc = "inferred" =>
        \A j \in 1..Len(inferDf) :
            inferDf[j].dtype = "object" =>
                LET n == Cardinality(NonMissing(j))
                    p == Cardinality(NumberParseable(j))
                IN  /\ n > 0 => (ConvertedToNumeric(j) <=> 5 * p > 4 * n)
                    /\ n = 0 => inferred.df[j] = inferDf[j]
                    /\ (n = 100 /\ p = 81) => ConvertedToNumeric(j)
                    /\ (n = 100 /\ p = 80)
                          => inferred.df[j].dtype \notin {"int64", "float64"}

\* C11 witness: a column of 100 non-missing values of which 81 parse was
\* converted to numeric.
C11_Witness ==
    /\ inferPc = "inferred"
    /\ \E j \in 1..Len(inferDf) :
          /\ inferDf[j].dtype = "object"
          /\ Cardinality(NonMissing(j)) = 100
          /\ Cardinality(NumberParseable(j)) = 81
          /\ inferred.df[j].dtype = "float64"
          /\ inferred.report.issues_detected = <<"type_inference">>

\* The column at position j is listed in the report's type_conversions.
Listed(j) ==
    \E k \in 1..Len(inferred.report.type_conversions) :
        inferred.report.type_conversions[k][1] = inferDf[j].name

\* C12: a textual column below the numeric threshold is converted to
\* temporal only when one of its first 10 non-missing values is date-shaped
\* and at least one value of the column parses as a date; in every other
\* case it remains textual with its values unchanged; every column whose
\* values were changed is listed in type_conversions.
C12_TemporalOnlyWhenSomeValueParses ==
    inferPc = "inferred" =>
        \A j \in 1..Len(inferDf) :
            /\ (/\ inferDf[j].dtype = "object"
                /\ 5 * Cardinality(NumberParseable(j))
                     <= 4 * Cardinality(NonMissing(j)))
               => IF /\ LooksLikeDate(inferDf[j].values)
                     /\ \E i \in NonMissing(j) :
                           ParsesDate(inferDf[j].values[i].text)
                  THEN inferred.df[j].dtype = "datetime64[ns]"
                  ELSE inferred.df[j] = inferDf[j]
            /\ inferred.df[j].values # inferDf[j].values => Listed(j)

(***************************************************************************)
(* Encoding Resolver                                                       *)
(***************************************************************************)

\* A file is its bytes, each a number in 0..255.  The files are shorter
\* than the sample of 8192 characters, so f.read(sample_size) decodes a file
\* to its end and the decoder is told that the input is final.

\* The list without its last candidate.
CandidatesBeforeLatin1 ==
    << "utf-8", "utf-8-sig", "cp949", "euc-kr", "utf-16", "utf-16-le",
       "utf-16-be", "gbk", "gb2312", "big5", "shift_jis", "euc-jp" >>

ENCODINGS_TO_TRY ==
    << "utf-8", "utf-8-sig", "cp949", "euc-kr", "utf-16", "utf-16-le",
       "utf-16-be", "gbk", "gb2312", "big5", "shift_jis", "euc-jp",
       "iso-8859-1" >>

\* The byte at position i of s exists and lies in lo..hi.
HasByte(s, i, lo, hi) == i <= Len(s) /\ lo <= s[i] /\ s[i] <= hi

\* A UTF-8 continuation byte at position i.
Cont(s, i) == HasByte(s, i, 128, 191)

\* The utf-8 decoder from position i on: well-formed sequences of one to
\* four bytes, no overlong form, no surrogate, nothing above U+10FFFF, no
\* truncated sequence at the end.
RECURSIVE Utf8Decodes(_, _)
Utf8Decodes(s, i) ==
    IF i > Len(s) THEN TRUE
    ELSE IF HasByte(s, i, 0, 127) THEN Utf8Decodes(s, i + 1)
    ELSE IF HasByte(s, i, 194, 223) /\ Cont(s, i + 1)
         THEN Utf8Decodes(s, i + 2)
    ELSE IF \/ HasByte(s, i, 224, 224) /\ HasByte(s, i + 1, 160, 191)
            \/ HasByte(s, i, 225, 236) /\ Cont(s, i + 1)
            \/ HasByte(s, i, 237, 237) /\ HasByte(s, i + 1, 128, 159)
            \/ HasByte(s, i, 238, 239) /\ Cont(s, i + 1)
         THEN Cont(s, i + 2) /\ Utf8Decodes(s, i + 3)
    ELSE IF \/ HasByte(s, i, 240, 240) /\ HasByte(s, i + 1, 144, 191)
            \/ HasByte(s, i, 241, 243) /\ Cont(s, i + 1)
            \/ HasByte(s, i, 244, 244) /\ HasByte(s, i + 1, 128, 143)
         THEN Cont(s, i + 2) /\ Cont(s, i + 3) /\ Utf8Decodes(s, i + 4)
    ELSE FALSE

\* codecs.BOM_UTF8
BOM_UTF8 == <<239, 187, 191>>

\* The utf-8-sig stream decoder: a leading byte-order mark is skipped; an
\* input of fewer than three bytes that is a prefix of the mark is kept
\* back as undecided and never decoded, not even at the end of the file.
Utf8SigDecodes(s) ==
    IF Len(s) < 3 /\ StartsWith(BOM_UTF8, s) THEN TRUE
    ELSE IF StartsWith(s, BOM_UTF8) THEN Utf8Decodes(s, 4)
    ELSE Utf8Decodes(s, 1)

\* The 16-bit code unit at position i, little or big endian.
CodeUnit(s, i, little) ==
    IF little THEN s[i] + 256 * s[i + 1] ELSE 256 * s[i] + s[i + 1]

IsHighSurrogate(u) == 55296 <= u /\ u <= 56319
IsLowSurrogate(u) == 56320 <= u /\ u <= 57343

\* The utf-16-le / utf-16-be decoder from position i on: whole code units,
\* every high surrogate followed by a low one, no low surrogate alone.
RECURSIVE Utf16UnitsDecode(_, _, _)
Utf16UnitsDecode(s, i, little) ==
    IF i > Len(s) THEN TRUE
    ELSE IF i = Len(s) THEN FALSE
    ELSE LET u == CodeUnit(s, i, little) IN
         IF IsHighSurrogate(u)
         THEN /\ i + 3 <= Len(s)
              /\ IsLowSurrogate(CodeUnit(s, i + 2, little))
              /\ Utf16UnitsDecode(s, i + 4, little)
         ELSE IF IsLowSurrogate(u) THEN FALSE
         ELSE Utf16UnitsDecode(s, i + 2, little)

\* The utf-16 stream decoder: the byte-order mark chooses the byte order,
\* and a stream that does not start with one is an error.
Utf16Decodes(s) ==
    IF StartsWith(s, <<255, 254>>) THEN Utf16UnitsDecode(s, 3, TRUE)
    ELSE IF StartsWith(s, <<254, 255>>) THEN Utf16UnitsDecode(s, 3, FALSE)
    ELSE s = <<>>

\* The bytes of the files: 'A', the bytes of U+AC00 in euc-kr (B0 A1) and,
\* with EA, in utf-8 (EA B0 A1 is U+AC21), the first two bytes of the
\* utf-8 byte-order mark (EF BB), those of the utf-16 marks (FE, FF) and
\* the high byte of a surrogate (D8).
FileByteValues == {65, 161, 176, 187, 216, 234, 239, 254, 255}

\* Second bytes of the double-byte codecs among FileByteValues.
HighTrails == {161, 176, 187, 216, 234, 239, 254}
AllTrails == {65} \cup HighTrails
HighLeads == {161, 176, 187, 216, 234, 239}

\* The double-byte codecs of the list.
DoubleByteCodecs ==
    {"cp949", "euc-kr", "gbk", "gb2312", "big5", "shift_jis", "euc-jp"}

\* The bytes a double-byte codec decodes on their own: the ASCII bytes
\* and, for shift_jis, the half-width katakana among FileByteValues.
Singles(encoding) ==
    (0..127) \cup (IF encoding = "shift_jis" THEN {161, 176, 187, 216} ELSE {})

\* The bytes of FileByteValues a double-byte codec decodes after the
\* first byte lead.
Trails(encoding, lead) ==
    CASE encoding = "cp949" ->
            IF lead \in {161, 176, 187} THEN AllTrails
            ELSE IF lead \in {216, 234, 239} THEN HighTrails ELSE {}
      [] encoding \in {"euc-kr", "gb2312", "euc-jp"} ->
            IF lead \in HighLeads THEN HighTrails ELSE {}
      [] encoding = "big5" ->
            IF lead \in HighLeads THEN AllTrails ELSE {}
      [] encoding = "gbk" ->
            IF lead = 161 THEN HighTrails
            ELSE IF lead \in HighLeads THEN AllTrails
            ELSE IF lead = 254 THEN {65} ELSE {}
      [] encoding = "shift_jis" ->
            IF lead = 234 THEN {65, 161} ELSE {}
      [] OTHER -> {}

\* A double-byte decoder from position i on: a byte that stands alone, or
\* a first byte with a second byte it maps; anything else is an error.
RECURSIVE DoubleByteDecodes(_, _, _)
DoubleByteDecodes(encoding, s, i) ==
    IF i > Len(s) THEN TRUE
    ELSE IF s[i] \in Singles(encoding)
         THEN DoubleByteDecodes(encoding, s, i + 1)
    ELSE IF i + 1 <= Len(s) /\ s[i + 1] \in Trails(encoding, s[i])
         THEN DoubleByteDecodes(encoding, s, i + 2)
    ELSE FALSE

\* open(file_path, 'r', encoding=encoding) and f.read(sample_size) raise
\* no UnicodeDecodeError and no UnicodeError.
Decodes(encoding, s) ==
    CASE encoding = "utf-8"      -> Utf8Decodes(s, 1)
      [] encoding = "utf-8-sig"  -> Utf8SigDecodes(s)
      [] encoding = "utf-16"     -> Utf16Decodes(s)
      [] encoding = "utf-16-le"  -> Utf16UnitsDecode(s, 1, TRUE)
      [] encoding = "utf-16-be"  -> Utf16UnitsDecode(s, 1, FALSE)
      [] encoding = "iso-8859-1" -> TRUE
      [] encoding \in DoubleByteCodecs -> DoubleByteDecodes(encoding, s, 1)

\* The loop of _detect_encoding over ENCODINGS_TO_TRY, and the fallback
\* after it.
RECURSIVE DetectEncodingLoop(_, _, _)
DetectEncodingLoop(s, report, i) ==
    IF i > Len(ENCODINGS_TO_TRY)
    THEN [encoding |-> "utf-8",
          report   |-> Record(report, "encoding_detection_failed",
                              <<"Using utf-8 with error replacement">>)]
    ELSE IF Decodes(ENCODINGS_TO_TRY[i], s)
         THEN [encoding |-> ENCODINGS_TO_TRY[i], report |-> report]
         ELSE DetectEncodingLoop(s, report, i + 1)

\* DataStructureChecker._detect_encoding
DetectEncoding(s, report) == DetectEncodingLoop(s, report, 1)

\* Bound: the most bytes of a file.
MaxFileBytes == 4

EncInit ==
    /\ encPc = "opened"
    /\ fileBytes \in SeqsUpTo(FileByteValues, MaxFileBytes)
    /\ encReport = NewReport(<<"f">>)
    /\ detected = [encoding |-> "", report |-> NewReport(<<"f">>)]

\* encoding = self._detect_encoding(file_path)
Detect ==
    /\ encPc = "opened"
    /\ detected' = DetectEncoding(fileBytes, encReport)
    /\ encPc' = "detected"
    /\ UNCHANGED <<fileBytes, encReport>>
    /\ UNCHANGED <<dupVars, idVars, hdrVars, flatVars, trimVars,
                   inferVars, pathVars, readVars, concVars>>

EncNext == Detect

EncStart ==
    EncInit /\ DupIdle /\ IdIdle /\ HdrIdle /\ FlatIdle /\ TrimIdle
    /\ InferIdle /\ PathIdle /\ ReadIdle /\ ConcIdle

SpecEnc == EncStart /\ [][EncNext]_vars

\* The priority list as the specification gives it.
PriorityList ==
    << "utf-8", "utf-8-sig", "cp949", "euc-kr", "utf-16", "utf-16-le",
       "utf-16-be", "gbk", "gb2312", "big5", "shift_jis", "euc-jp",
       "iso-8859-1" >>

\* The encoding is the first of the priority list under which the file
\* decodes.
FirstDecoding(encoding) ==
    \E k \in 1..Len(PriorityList) :
        /\ PriorityList[k] = encoding
        /\ Decodes(encoding, fileBytes)
        /\ \A h \in 1..(k - 1) : ~Decodes(PriorityList[h], fileBytes)

\* The file is valid under a legacy Korean encoding and invalid under
\* UTF-8.
KoreanNotUtf8 ==
    /\ Decodes("cp949", fileBytes) \/ Decodes("euc-kr", fileBytes)
    /\ ~Decodes("utf-8", fileBytes)

\* C13: the Encoding Resolver returns the first encoding of the priority
\* list under which the sample decodes without error; a file valid under a
\* legacy Korean encoding and invalid under UTF-8 resolves to a legacy
\* Korean encoding and never to the lossy UTF-8 fallback.
C13_FirstDecodingKoreanStaysKorean ==
    encPc = "detected" =>
        /\ FirstDecoding(detected.encoding)
        /\ KoreanNotUtf8 =>
              /\ detected.encoding \in {"cp949", "euc-kr"}
              /\ detected.report.issues_detected = <<>>

(***************************************************************************)
(* Unicode Path Resolver                                                   *)
(***************************************************************************)

\* The characters of a file name: "a", the precomposed letter "E" (U+00E9)
\* and its decomposition "e" followed by the combining mark "'" (U+0301).
\* A path is the sequence of its components, relative to the working
\* directory; str(path) joins them with "/".

\* unicodedata.normalize('NFC', s): each "e" with its mark is composed.
RECURSIVE NFC(_)
NFC(s) ==
    IF s = <<>> THEN <<>>
    ELSE IF Len(s) >= 2 /\ s[1] = "e" /\ s[2] = "'"
         THEN <<"E">> \o NFC(SubSeq(s, 3, Len(s)))
         ELSE <<s[1]>> \o NFC(Tail(s))

\* unicodedata.normalize('NFD', s): each precomposed letter is decomposed.
RECURSIVE NFD(_)
NFD(s) ==
    IF s = <<>> THEN <<>>
    ELSE IF s[1] = "E" THEN <<"e", "'">> \o NFD(Tail(s))
         ELSE <<s[1]>> \o NFD(Tail(s))

\* unicodedata.normalize(form, s)
Normalize(form, s) == IF form = "NFC" THEN NFC(s) ELSE NFD(s)

\* str(file_path) and Path(path_str)
PathStr(path) == Join(path, <<"/">>)
PathOf(path_str) == Split(path_str, "/")

\* file_path.parent and file_path.name; the parent of a single component
\* is the working directory, the empty sequence.
Parent(path) == SubSeq(path, 1, Len(path) - 1)
Name(path) == path[Len(path)]

\* A filesystem is the set of its entries below the working directory,
\* each a path with the kind of the entry.
Exists(filesystem, path) ==
    path = <<>> \/ \E e \in filesystem : e.path = path
IsDir(filesystem, path) ==
    path = <<>> \/ \E e \in filesystem : e.path = path /\ e.kind = "dir"

\* parent.iterdir(): the entries directly in the directory.
IterDir(filesystem, dir) ==
    { e.path : e \in { g \in filesystem : Parent(g.path) = dir } }

\* What a call leaves: a path returned or an exception raised.
Returned(path) == [kind |-> "returned", path |-> path]
Raised(exception) == [kind |-> "raised", path |-> <<exception>>]

\* The test of the scan loop on one entry of the parent.
NameMatches(actual_name, target_name) ==
    \/ actual_name = target_name
    \/ NFC(actual_name) = NFC(target_name)
    \/ NFD(actual_name) = NFD(target_name)

\* The scan of the parent directory.  iterdir() yields the entries in an
\* order the filesystem chooses, so any matching entry can be the first;
\* iterating a parent that is not a directory raises.
ScanParent(file_path, filesystem) ==
    LET parent  == Parent(file_path)
        matches == { actual_file \in IterDir(filesystem, parent) :
                        NameMatches(Name(actual_file), Name(file_path)) }
    IN  IF ~Exists(filesystem, parent) THEN {Returned(file_path)}
        ELSE IF ~IsDir(filesystem, parent)
             THEN {Raised("NotADirectoryError")}
        ELSE IF matches = {} THEN {Returned(file_path)}
        ELSE {Returned(actual_file) : actual_file \in matches}

\* _resolve_unicode_path: the outcomes the call can have.
ResolveUnicodePath(file_path, filesystem) ==
    LET path_str == PathStr(file_path)
        nfc_path == PathOf(Normalize("NFC", path_str))
        nfd_path == PathOf(Normalize("NFD", path_str))
    IN  IF Exists(filesystem, file_path) THEN {Returned(file_path)}
        ELSE IF Exists(filesystem, nfc_path) THEN {Returned(nfc_path)}
        ELSE IF Exists(filesystem, nfd_path) THEN {Returned(nfd_path)}
        ELSE ScanParent(file_path, filesystem)

\* Bound: the most entries of a filesystem.
MaxEntries == 2

\* The names: a plain one and the four spellings of a name of two
\* accented letters (NFC, two mixed ones, NFD).
Names ==
    { <<"a">>, <<"E", "E">>, <<"E", "e", "'">>, <<"e", "'", "E">>,
      <<"e", "'", "e", "'">> }

\* The paths of one and of two components.
TopPaths == { <<n>> : n \in Names }
ChildPaths == { <<d, n>> : d \in Names, n \in Names }

\* The entries a filesystem can hold: files and directories in the
\* working directory, files in its directories.
EntryChoices ==
    { [path |-> p, kind |-> k] : p \in TopPaths, k \in {"file", "dir"} }
    \cup { [path |-> p, kind |-> "file"] : p \in ChildPaths }

\* One entry per path, and every entry inside a directory that exists.
WellFormed(filesystem) ==
    /\ \A e, g \in filesystem : e.path = g.path => e = g
    /\ \A e \in filesystem :
          Len(e.path) = 2 => IsDir(filesystem, Parent(e.path))

PathInit ==
    /\ pathPc = "requested"
    /\ requested \in TopPaths \cup ChildPaths
    /\ \E k \in 0..MaxEntries :
          \E f \in [1..k -> EntryChoices] :
             /\ WellFormed({f[i] : i \in 1..k})
             /\ fs = {f[i] : i \in 1..k}
    /\ resolved = Returned(<<>>)

\* file_path = _resolve_unicode_path(file_path)
Resolve ==
    /\ pathPc = "requested"
    /\ resolved' \in ResolveUnicodePath(requested, fs)
    /\ pathPc' = "resolved"
    /\ UNCHANGED <<requested, fs>>
    /\ UNCHANGED <<dupVars, idVars, hdrVars, flatVars, trimVars,
                   inferVars, encVars, readVars, concVars>>

PathNext == Resolve

PathStart ==
    PathInit /\ DupIdle /\ IdIdle /\ HdrIdle /\ FlatIdle /\ TrimIdle
    /\ InferIdle /\ EncIdle /\ ReadIdle /\ ConcIdle

SpecPath == PathStart /\ [][PathNext]_vars

\* The normalization variants of a path: each component as given, in NFC
\* or in NFD.
Variants(path) ==
    { v \in [1..Len(path) -> Names] :
        \A i \in 1..Len(path) : v[i] \in {path[i], NFC(path[i]), NFD(path[i])} }

\* C14: if some normalization variant of the requested path (NFC or NFD
\* applied to its components, directory components included) names an
\* existing entry, the resolver returns a path that exists; otherwise it
\* returns the requested path.
C14_ExistingVariantIsFound ==
    pathPc = "resolved" =>
        IF \E v \in Variants(requested) : Exists(fs, v)
        THEN resolved.kind = "returned" /\ Exists(fs, resolved.path)
        ELSE resolved = Returned(requested)

(***************************************************************************)
(* Files and the pandas readers                                            *)
(***************************************************************************)

\* What a step leaves: a value, or an exception with its message.
Ok(value) == [kind |-> "ok", value |-> value]
Err(exception, message) ==
    [kind |-> "raised", exception |-> exception, message |-> message]

\* str.lower() on the letters the model uses in extensions; "E" stands
\* for the lower-case letter U+00E9 and stays.
UpperLetters == <<"C", "S", "V", "T", "X", "L">>
LowerLetters == <<"c", "s", "v", "t", "x", "l">>
LowerChar(c) ==
    IF \E i \in 1..Len(UpperLetters) : UpperLetters[i] = c
    THEN LowerLetters[CHOOSE i \in 1..Len(UpperLetters) : UpperLetters[i] = c]
    ELSE c
Lower(s) == [i \in 1..Len(s) |-> LowerChar(s[i])]

\* file_path.suffix: the name from its last dot on, nothing when that dot
\* leads or ends the name.
Suffix(path) ==
    IF path = <<>> THEN <<>>
    ELSE LET name == Name(path)
             dots == { i \in 1..Len(name) : name[i] = "." }
         IN  IF dots = {} THEN <<>>
             ELSE LET i == CHOOSE d \in dots : \A e \in dots : e <= d IN
                  IF 1 < i /\ i < Len(name)
                  THEN SubSeq(name, i, Len(name)) ELSE <<>>

\* The keys of MultiLevelReader.SUPPORTED_FORMATS in the order of the dict.
SupportedExtensions ==
    << <<".", "x", "l", "s", "x">>, <<".", "x", "l", "s">>,
       <<".", "c", "s", "v">>, <<".", "t", "s", "v">>,
       <<".", "o", "d", "s">>,
       <<".", "p", "a", "r", "q", "u", "e", "t">>, <<".", "p", "q">> >>

\* MultiLevelReader.SUPPORTED_FORMATS: the format type of each key.
FormatTypes == <<"excel", "excel", "csv", "csv", "ods", "parquet", "parquet">>

\* ext in self.SUPPORTED_FORMATS
IsSupported(ext) ==
    \E i \in 1..Len(SupportedExtensions) : SupportedExtensions[i] = ext

\* self.SUPPORTED_FORMATS[ext]
SUPPORTED_FORMATS(ext) ==
    FormatTypes[CHOOSE i \in 1..Len(SupportedExtensions) :
                   SupportedExtensions[i] = ext]

\* A regular file of a filesystem holds its content: the bytes of a
\* delimited text file, or the cells of the first sheet of a workbook.
\* A file holds what its extension says.
TextFile(bytes) == [kind |-> "text", bytes |-> bytes]
Workbook(sheet) == [kind |-> "sheet", sheet |-> sheet]
FileContent(filesystem, path) ==
    (CHOOSE e \in filesystem : e.path = path).content

\* The character of a byte below 128; a byte above 127 stands for itself:
\* which character an encoding makes of it is not modelled, only whether
\* the bytes decode.
CharOf(b) ==
    CASE b = 9 -> "\t"
      [] b = 32 -> " "
      [] b = 44 -> ","
      [] b = 45 -> "-"
      [] b = 48 -> "0"
      [] b = 49 -> "1"
      [] b = 50 -> "2"
      [] b = 52 -> "4"
      [] b = 53 -> "5"
      [] b = 65 -> "A"
      [] b = 161 -> "xA1"
      [] b = 176 -> "xB0"
      [] b = 187 -> "xBB"
      [] b = 216 -> "xD8"
      [] b = 234 -> "xEA"
      [] b = 239 -> "xEF"
      [] b = 254 -> "xFE"
      [] OTHER -> "xFF"
Chars(bytes) == [i \in 1..Len(bytes) |-> CharOf(bytes[i])]

\* utf-16 and its two fixed byte orders.
Utf16Family == {"utf-16", "utf-16-le", "utf-16-be"}

\* The bytes of the text once the byte order mark is taken off: utf-8 and
\* utf-8-sig drop a leading BOM, utf-8-sig reads a cut BOM as nothing,
\* utf-16 drops its two-byte mark.
WithoutBom(encoding, bytes) ==
    IF encoding \in {"utf-8", "utf-8-sig"} /\ StartsWith(bytes, BOM_UTF8)
    THEN SubSeq(bytes, 4, Len(bytes))
    ELSE IF encoding = "utf-8-sig" /\ StartsWith(BOM_UTF8, bytes) THEN <<>>
    ELSE IF encoding = "utf-16" THEN SubSeq(bytes, 3, Len(bytes))
    ELSE bytes

NonEmpty(s) == s # <<>>

\* The byte of the delimiter sep, and the line feed.
DelimiterByte(sep) == IF sep = "," THEN 44 ELSE 9
LineFeed == 10

\* The lines of the text as fields of characters, blank lines skipped
\* (skip_blank_lines).  In the utf-16 encodings a character is two bytes,
\* and as the files hold no zero byte none of them is a delimiter or a
\* line feed: the text is one field.  In the other encodings of
\* ENCODINGS_TO_TRY the delimiters and the line feed are single bytes that
\* are no part of another character.
SplitDecoded(encoding, text, sep) ==
    IF encoding \in Utf16Family
    THEN IF text = <<>> THEN <<>>
         ELSE << << [k \in 1..(Len(text) \div 2) |->
                       CharOf(text[2 * k - 1]) \o CharOf(text[2 * k])] >> >>
    ELSE LET lines == SelectSeq(Split(text, LineFeed), NonEmpty) IN
         [i \in 1..Len(lines) |->
            LET fields == Split(lines[i], DelimiterByte(sep)) IN
            [j \in 1..Len(fields) |-> Chars(fields[j])]]
SplitText(encoding, bytes, sep) ==
    SplitDecoded(encoding, WithoutBom(encoding, bytes), sep)

\* The fields of the lines: the first line sets the number of columns, a
\* shorter line is padded with empty fields.
PaddedRows(split) ==
    LET ncols == IF split = <<>> THEN 0 ELSE Len(split[1])
    IN  [ncols |-> ncols,
         wide  |-> \E i \in 1..Len(split) : Len(split[i]) > ncols,
         rows  |-> [i \in 1..Len(split) |->
                      [j \in 1..ncols |->
                         IF j <= Len(split[i]) THEN split[i][j] ELSE <<>>]]]
FieldRows(encoding, bytes, sep) == PaddedRows(SplitText(encoding, bytes, sep))

\* The values pandas makes of the fields of one column: an empty field is
\* missing; the others are numbers when every one of them parses as a
\* number, and stay str otherwise.
ColumnValues(fields) ==
    LET numeric == \A i \in 1..Len(fields) :
                      fields[i] # <<>> => ParsesNumber(fields[i])
    IN  [i \in 1..Len(fields) |->
            IF fields[i] = <<>> THEN NaN
            ELSE IF numeric THEN Number(Strip(fields[i]))
            ELSE Text(fields[i])]

\* The cells of the rows of fields from row first on, typed by column.
TypedRows(field_rows, ncols, first) ==
    LET n    == Len(field_rows) - first + 1
        cols == [j \in 1..ncols |->
                    ColumnValues([i \in 1..n |-> field_rows[first + i - 1][j]])]
    IN  [i \in 1..n |-> [j \in 1..ncols |-> cols[j][i]]]

\* The text of a file as pd.read_csv(file_path, encoding=encoding, sep=sep)
\* takes it in, or the exception it raises: UnicodeDecodeError when the
\* bytes do not decode, EmptyDataError when there is no line,
\* ParserError when a line has more fields than the first.
ParsedFields(f) ==
    IF f.rows = <<>>
    THEN Err("EmptyDataError", <<"No columns to parse from file">>)
    ELSE IF f.wide
    THEN Err("ParserError", <<"Error tokenizing data">>)
    ELSE Ok(f)
ReadCsvFields(bytes, encoding, sep) ==
    IF ~Decodes(encoding, bytes)
    THEN Err("UnicodeDecodeError", <<encoding>>)
    ELSE ParsedFields(FieldRows(encoding, bytes, sep))

\* 'Unnamed: {i}' and 'Unnamed: {i}_level_{l}': the label pandas gives an
\* empty header cell of column i (from 0) at level l (from 0).
UnnamedLabel(i) == UnnamedPrefix \o <<" ">> \o IntToStr(i)
UnnamedLevelLabel(i, l) ==
    UnnamedLabel(i) \o <<"_", "l", "e", "v", "e", "l", "_">> \o IntToStr(l)

\* The label of a header cell of column j (from 1) at level l (from 1) of
\* nlevels: a missing cell gets the Unnamed label; the text of any other
\* is kept.
HeaderLabel(cell, j, l, nlevels) ==
    IF IsNa(cell)
    THEN Text(IF nlevels > 1 THEN UnnamedLevelLabel(j - 1, l - 1)
              ELSE UnnamedLabel(j - 1))
    ELSE Text(cell.text)

\* f"{col}.{n}"
DotSuffixed(name, n) == name \o <<".">> \o IntToStr(n)

\* The column label col with .n appended on its last level.
DotLast(col, n) ==
    [col EXCEPT ![Len(col)] = Text(DotSuffixed(col[Len(col)].text, n))]

\* counts[col] of a defaultdict(int), and the dict after counts[col] = n.
CountOf(counts, col) == IF col \in DOMAIN counts THEN counts[col] ELSE 0
WithCount(counts, col, n) == (col :> n) @@ counts

\* The while-loop pandas runs on one column label (dedup_names): a label
\* met before gets .1, .2, ... appended until it is new.
RECURSIVE DedupName(_, _)
DedupName(col, counts) ==
    LET cur_count == CountOf(counts, col) IN
    IF cur_count > 0
    THEN DedupName(DotLast(col, cur_count),
                   WithCount(counts, col, cur_count + 1))
    ELSE [col |-> col, counts |-> WithCount(counts, col, 1)]

\* The loop of dedup_names over the column labels read from the header.
RECURSIVE DedupNamesLoop(_, _, _, _)
DedupNamesLoop(tuples, c, counts, result) ==
    IF c > Len(tuples) THEN result
    ELSE LET r == DedupName(tuples[c], counts) IN
         DedupNamesLoop(tuples, c + 1, r.counts, Append(result, r.col))

DedupNames(tuples) == DedupNamesLoop(tuples, 1, <<>>, <<>>)

\* fill_mi_header of pandas.io.excel on one header row of a workbook read
\* with several header rows: a blank cell takes the value to its left
\* while the rows above have not started a new group there; control_row
\* tells where they have not.
RECURSIVE FillMiHeaderLoop(_, _, _, _)
FillMiHeaderLoop(row, control_row, i, last) ==
    IF i > Len(row) THEN [row |-> row, control_row |-> control_row]
    ELSE LET seed == IF ~control_row[i] THEN row[i] ELSE last IN
         IF IsNa(row[i])
         THEN FillMiHeaderLoop([row EXCEPT ![i] = seed], control_row,
                               i + 1, seed)
         ELSE FillMiHeaderLoop(row, [control_row EXCEPT ![i] = FALSE],
                               i + 1, row[i])

FillMiHeader(row, control_row) ==
    IF row = <<>> THEN [row |-> row, control_row |-> control_row]
    ELSE FillMiHeaderLoop(row, control_row, 2, row[1])

\* The header rows of a workbook after fill_mi_header ran over them from
\* the top.
RECURSIVE FillHeaderRows(_, _, _, _)
FillHeaderRows(rows, l, control_row, result) ==
    IF l > Len(rows) THEN result
    ELSE LET r == FillMiHeader(rows[l], control_row) IN
         FillHeaderRows(rows, l + 1, r.control_row, Append(result, r.row))

\* The dtype pandas gives a column it has read: object when it holds a str
\* or no row at all, int64 when it holds integers only, float64 when a
\* value is missing or has a fraction.
ColumnDtype(values) ==
    IF values = <<>> \/ \E i \in 1..Len(values) : values[i].kind = "str"
    THEN "object"
    ELSE NumericDtype(values)

\* The table read with the first nheaders rows as the header: the column
\* index (one tuple of labels per column), the data body and the dtypes.
\* header_cells are the header rows as cells, body the typed rows below.
HeaderTable(header_cells, body, ncols) ==
    LET nlevels == Len(header_cells)
        tuples  == [j \in 1..ncols |->
                      [l \in 1..nlevels |->
                         HeaderLabel(header_cells[l][j], j, l, nlevels)]]
    IN  [columns |-> [nlevels |-> nlevels, tuples |-> DedupNames(tuples)],
         rows    |-> body,
         dtypes  |-> [j \in 1..ncols |->
                        ColumnDtype([i \in 1..Len(body) |-> body[i][j]])]]

\* A field of a delimited text as a header cell: empty is missing.
FieldCell(field) == IF field = <<>> THEN NaN ELSE Text(field)

\* pd.read_csv(file_path, encoding=encoding, sep=sep, header=None)
RawGrid(f) ==
    IF f.kind = "raised" THEN f
    ELSE Ok([ncols |-> f.value.ncols,
             rows  |-> TypedRows(f.value.rows, f.value.ncols, 1)])
ReadCsvRaw(bytes, encoding, sep) == RawGrid(ReadCsvFields(bytes, encoding, sep))

\* pd.read_csv(file_path, encoding=encoding, sep=sep, header=...) with the
\* first nheaders lines as the header.
TableUnderHeaders(f, nheaders) ==
    IF f.kind = "raised" THEN f
    ELSE LET rows == f.value.rows
             n    == f.value.ncols
         IN  Ok(HeaderTable(
                    [l \in 1..nheaders |->
                        [j \in 1..n |-> FieldCell(rows[l][j])]],
                    TypedRows(rows, n, nheaders + 1), n))
ReadCsvWithHeaders(bytes, encoding, sep, nheaders) ==
    TableUnderHeaders(ReadCsvFields(bytes, encoding, sep), nheaders)

\* pd.read_excel(file_path, header=None): the cells of the sheet.
ReadExcelRaw(sheet) == Ok(sheet)

\* pd.read_excel(file_path, header=...) with the first nheaders rows as
\* the header; an empty sheet gives an empty table.
ReadExcelWithHeaders(sheet, nheaders) ==
    IF IsEmpty(sheet)
    THEN Ok([columns |-> [nlevels |-> 1, tuples |-> <<>>],
             rows |-> <<>>, dtypes |-> <<>>])
    ELSE LET top    == SubSeq(sheet.rows, 1, nheaders)
             filled == IF nheaders > 1
                       THEN FillHeaderRows(top, 1,
                                [j \in 1..sheet.ncols |-> TRUE], <<>>)
                       ELSE top
         IN  Ok(HeaderTable(filled,
                            SubSeq(sheet.rows, nheaders + 1, Len(sheet.rows)),
                            sheet.ncols))

(***************************************************************************)
(* MultiLevelReader.read and get_header_info                               *)
(***************************************************************************)

\* MultiLevelReader.__init__
MultiLevelReader(separator_, max_header_rows) ==
    [separator |-> separator_, max_header_rows |-> max_header_rows,
     encoding |-> "utf-8"]

\* The keyword arguments of a call are a dict: the empty one, and the one
\* after kwargs['encoding'] = encoding.
NoKwargs == <<>>
WithEncoding(kwargs, encoding) == ("encoding" :> encoding) @@ kwargs

\* kwargs_copy.pop('encoding', self.encoding)
PopEncoding(kwargs, reader) ==
    IF "encoding" \in DOMAIN kwargs THEN kwargs["encoding"]
    ELSE reader.encoding

\* ',' if file_path.suffix == '.csv' else '\t'
DefaultSep(file_path) ==
    IF Suffix(file_path) = <<".", "c", "s", "v">> THEN "," ELSE "\t"

\* MultiLevelReader._read_raw.  pd.read_parquet hands header=None on to
\* the parquet engine, which takes no such argument.
ReadRaw(reader, file_path, filesystem, format_type, kwargs) ==
    IF format_type \in {"excel", "ods"}
    THEN ReadExcelRaw(FileContent(filesystem, file_path).sheet)
    ELSE IF format_type = "csv"
    THEN ReadCsvRaw(FileContent(filesystem, file_path).bytes,
                    PopEncoding(kwargs, reader),
                    DefaultSep(file_path))
    ELSE Err("TypeError", <<"unexpected keyword argument 'header'">>)

\* MultiLevelReader._read_with_headers: header_rows are the first rows of
\* the file, so their number tells which.
ReadWithHeaders(reader, file_path, filesystem, format_type, header_rows, kwargs) ==
    IF format_type \in {"excel", "ods"}
    THEN ReadExcelWithHeaders(FileContent(filesystem, file_path).sheet,
                              Len(header_rows))
    ELSE IF format_type = "csv"
    THEN ReadCsvWithHeaders(FileContent(filesystem, file_path).bytes,
                            PopEncoding(kwargs, reader),
                            DefaultSep(file_path), Len(header_rows))
    ELSE Err("TypeError", <<"unexpected keyword argument 'header'">>)

\* f"File not found: {file_path}"
FileNotFound(file_path) ==
    Err("FileNotFoundError", <<"File not found: ", PathStr(file_path)>>)

\* f"Unsupported file format: {ext}. Supported formats: {list(...)}"
UnsupportedFormat(ext) ==
    Err("ValueError",
        <<"Unsupported file format: ", ext, ". ", "Supported formats: ",
          SupportedExtensions>>)

\* MultiLevelReader.read, the flattening of the columns of the table
\* _read_with_headers returned.
ReadFlattened(reader, table) ==
    IF table.kind = "raised" THEN table
    ELSE Ok([columns |-> IF IsMultiIndex(table.value.columns)
                         THEN FlattenColumns(table.value.columns,
                                             reader.separator)
                         ELSE CleanColumnNames(table.value.columns),
             rows    |-> table.value.rows,
             dtypes  |-> table.value.dtypes])

\* MultiLevelReader.read from the header detection on, raw_df being what
\* _read_raw returned or raised.
ReadDetected(reader, file_path, filesystem, format_type, kwargs, raw_df) ==
    IF raw_df.kind = "raised" THEN raw_df
    ELSE ReadFlattened(reader,
             ReadWithHeaders(reader, file_path, filesystem, format_type,
                 DetectHeaderRows(raw_df.value, reader.max_header_rows),
                 kwargs))

\* MultiLevelReader.read from the format check on.
ReadChecked(reader, file_path, filesystem, kwargs, ext) ==
    IF ~IsSupported(ext) THEN UnsupportedFormat(ext)
    ELSE ReadDetected(reader, file_path, filesystem, SUPPORTED_FORMATS(ext),
             kwargs,
             ReadRaw(reader, file_path, filesystem, SUPPORTED_FORMATS(ext),
                     kwargs))

\* MultiLevelReader.read from the existence check on, for the path the
\* resolver returned.
ReadResolved(reader, file_path, filesystem, kwargs) ==
    IF ~Exists(filesystem, file_path) THEN FileNotFound(file_path)
    ELSE ReadChecked(reader, file_path, filesystem, kwargs,
                     Lower(Suffix(file_path)))

\* An exception of the path resolver as the outcome of its caller.
ResolverError(r) == Err(r.path[1], <<>>)

\* MultiLevelReader.read: the outcomes the call can have.
ReaderRead(reader, file_path, filesystem, kwargs) ==
    { IF r.kind = "raised" THEN ResolverError(r)
      ELSE ReadResolved(reader, r.path, filesystem, kwargs) :
        r \in ResolveUnicodePath(file_path, filesystem) }

\* The header_content list of get_header_info: one entry per detected
\* header row that the grid has.
RECURSIVE HeaderContent(_, _, _)
HeaderContent(raw_df, detected_headers, k) ==
    IF k > Len(detected_headers) THEN <<>>
    ELSE LET idx == detected_headers[k] IN
         IF idx < Len(raw_df.rows)
         THEN << [row_index      |-> idx,
                  values         |-> raw_df.rows[idx + 1],
                  non_null_count |-> Len(DropNa(raw_df.rows[idx + 1]))] >>
              \o HeaderContent(raw_df, detected_headers, k + 1)
         ELSE HeaderContent(raw_df, detected_headers, k + 1)

\* MultiLevelReader.get_header_info for the path the resolver returned.
\* It has no existence check: the pandas reader raises on a missing file.
\* The dict get_header_info returns.
HeaderInfoDict(file_path, format_type, raw_df, detected_headers) ==
    [file_path            |-> PathStr(file_path),
     format               |-> format_type,
     total_rows           |-> Len(raw_df.rows),
     total_columns        |-> raw_df.ncols,
     detected_header_rows |-> detected_headers,
     header_count         |-> Len(detected_headers),
     header_content       |-> HeaderContent(raw_df, detected_headers, 1)]

\* get_header_info from the header detection on, raw_df being what
\* _read_raw returned or raised.
HeaderInfoDetected(reader, file_path, format_type, raw_df) ==
    IF raw_df.kind = "raised" THEN raw_df
    ELSE Ok(HeaderInfoDict(file_path, format_type, raw_df.value,
                DetectHeaderRows(raw_df.value, reader.max_header_rows)))

\* get_header_info from the format lookup on.
HeaderInfoChecked(reader, file_path, filesystem, ext) ==
    IF ~IsSupported(ext)
    THEN Ok([error |-> <<"Unsupported format: ", ext>>])
    ELSE IF ~Exists(filesystem, file_path)
    THEN Err("FileNotFoundError",
             <<"[Errno 2] No such file or directory: ", PathStr(file_path)>>)
    ELSE HeaderInfoDetected(reader, file_path, SUPPORTED_FORMATS(ext),
             ReadRaw(reader, file_path, filesystem, SUPPORTED_FORMATS(ext),
                     NoKwargs))

HeaderInfoResolved(reader, file_path, filesystem) ==
    HeaderInfoChecked(reader, file_path, filesystem, Lower(Suffix(file_path)))

\* MultiLevelReader.get_header_info: the outcomes the call can have.
GetHeaderInfo(reader, file_path, filesystem) ==
    { IF r.kind = "raised" THEN ResolverError(r)
      ELSE HeaderInfoResolved(reader, r.path, filesystem) :
        r \in ResolveUnicodePath(file_path, filesystem) }

\* header_info.get(key, default)
Get(header_info, key, default) ==
    IF key \in DOMAIN header_info THEN header_info[key] ELSE default

(***************************************************************************)
(* Orchestrator: DataStructureChecker.smart_read                           *)
(***************************************************************************)

\* DataStructureChecker.__init__: the attributes but the report.
DataStructureChecker(separator_, max_header_rows, trim_empty, infer_types, handle_duplicates) ==
    [separator         |-> separator_,
     max_header_rows   |-> max_header_rows,
     trim_empty        |-> trim_empty,
     infer_types       |-> infer_types,
     handle_duplicates |-> handle_duplicates]

\* A table without a column, as df is before the read.
NoTable == [columns |-> <<>>, rows |-> <<>>, dtypes |-> <<>>]

\* A call of smart_read on the checker self_: its arguments, the
\* filesystem it works on, its local variables, the report of the checker
\* and its outcome.  requested keeps the file_path argument.
NewCall(self_, file_path, return_report, filesystem) ==
    [pc            |-> "begin",
     self          |-> self_,
     requested     |-> file_path,
     return_report |-> return_report,
     fs            |-> filesystem,
     report        |-> <<>>,
     file_path     |-> file_path,
     ext           |-> <<>>,
     kwargs        |-> NoKwargs,
     df            |-> NoTable,
     stages        |-> <<>>,
     outcome       |-> <<>>]

\* The call after stage name ran, about to run the stage next.
Ran(c, name, next) ==
    [c EXCEPT !.pc = next, !.stages = Append(@, name)]

\* The call after an exception left smart_read.
Raise(c, error) == [c EXCEPT !.pc = "raised", !.outcome = error]

\* self._report = {...}
BeginStage(c) ==
    { [c EXCEPT !.pc = "resolve",
                !.report = NewReport(PathStr(c.requested))] }

\* Step 1: file_path = _resolve_unicode_path(file_path), and the
\* unicode_path issue when the string of the path changed.
ResolvePathStage(c) ==
    { IF r.kind = "raised" THEN Raise(c, ResolverError(r))
      ELSE Ran([c EXCEPT
                  !.file_path = r.path,
                  !.report = IF PathStr(r.path) # c.report.file_path
                             THEN Record(@, "unicode_path",
                                      <<"Resolved Unicode path normalization">>)
                             ELSE @],
               "resolve_path", "exists") :
        r \in ResolveUnicodePath(c.file_path, c.fs) }

\* if not file_path.exists(): raise FileNotFoundError; then
\* ext = file_path.suffix.lower()
ExistsStage(c) ==
    { IF ~Exists(c.fs, c.file_path) THEN Raise(c, FileNotFound(c.file_path))
      ELSE Ran([c EXCEPT !.ext = Lower(Suffix(c.file_path))],
               "exists", "encoding") }

\* ['.csv', '.tsv']
DelimitedExtensions == { <<".", "c", "s", "v">>, <<".", "t", "s", "v">> }

\* Step 2: the encoding is detected for .csv and .tsv only.
EncodingStage(c) ==
    { IF c.ext \in DelimitedExtensions
      THEN LET d == DetectEncoding(FileContent(c.fs, c.file_path).bytes,
                                   c.report)
           IN  Ran([c EXCEPT
                      !.report = [d.report EXCEPT
                                    !.encoding_used = d.encoding],
                      !.kwargs = WithEncoding(@, d.encoding)],
                   "detect_encoding", "read")
      ELSE [c EXCEPT !.pc = "read"] }

\* Step 3: df = reader.read(file_path, sheet_name=sheet_name, **kwargs)
ReadStage(c) ==
    { IF o.kind = "raised" THEN Raise(c, o)
      ELSE Ran([c EXCEPT !.df = o.value], "read", "header_info") :
        o \in ReaderRead(MultiLevelReader(c.self.separator,
                                          c.self.max_header_rows),
                         c.file_path, c.fs, c.kwargs) }

\* f"Flattened {n}-level headers with '{self.separator}' separator"
FlattenedMessage(n, sep) ==
    <<"Flattened ", IntToStr(n), "-level headers with '", sep, "' separator">>

\* header_info = reader.get_header_info(file_path, sheet_name), the
\* header_rows and original_shape entries of the report, and the
\* multi_level_headers issue.
HeaderInfoStage(c) ==
    { IF o.kind = "raised" THEN Raise(c, o)
      ELSE LET header_rows == Get(o.value, "detected_header_rows", <<0>>)
               shape == <<Get(o.value, "total_rows", 0),
                          Get(o.value, "total_columns", 0)>>
               report == [c.report EXCEPT !.header_rows = header_rows,
                                          !.original_shape = shape]
           IN  Ran([c EXCEPT
                      !.report =
                         IF Len(header_rows) > 1
                         THEN Record(report, "multi_level_headers",
                                     FlattenedMessage(Len(header_rows),
                                                      c.self.separator))
                         ELSE report],
                   "header_info", "trim") :
        o \in GetHeaderInfo(MultiLevelReader(c.self.separator,
                                             c.self.max_header_rows),
                            c.file_path, c.fs) }

\* f"Removed {rows_removed} empty rows and {cols_removed} empty columns"
RemovedMessage(rows_removed, cols_removed) ==
    <<"Removed ", IntToStr(rows_removed), " empty rows and ",
      IntToStr(cols_removed), " empty columns">>

\* The positions of the columns _trim_empty keeps.
KeptColumns(t) ==
    TrimEmpty([columns |-> [j \in 1..Len(t.columns) |-> j],
               rows    |-> t.rows]).df.columns

\* _trim_empty with the report entries it makes.
TrimEmptyReported(t, report) ==
    LET r    == TrimEmpty([columns |-> t.columns, rows |-> t.rows])
        kept == KeptColumns(t)
    IN  [df     |-> [columns |-> r.df.columns,
                     rows    |-> r.df.rows,
                     dtypes  |-> [k \in 1..Len(kept) |-> t.dtypes[kept[k]]]],
         report |-> IF r.rows_removed > 0 \/ r.cols_removed > 0
                    THEN [Record(report, "empty_rows_or_columns",
                                 RemovedMessage(r.rows_removed, r.cols_removed))
                          EXCEPT !.empty_rows_removed = r.rows_removed,
                                 !.empty_cols_removed = r.cols_removed]
                    ELSE report]

\* Step 4 followed at once by step 6, step 5 left out.
TrimStageThenInfer(c) ==
    IF c.self.trim_empty
    THEN { Ran([c EXCEPT !.df = r.df, !.report = r.report],
               "trim", "infer") :
             r \in {TrimEmptyReported(c.df, c.report)} }
    ELSE { [c EXCEPT !.pc = "infer"] }

\* Step 4: if self.trim_empty: df = self._trim_empty(df)
TrimStage(c) ==
    IF c.self.trim_empty
    THEN { Ran([c EXCEPT !.df = r.df, !.report = r.report],
               "trim", "duplicates") :
             r \in {TrimEmptyReported(c.df, c.report)} }
    ELSE { [c EXCEPT !.pc = "duplicates"] }

\* f"Renamed {len(renamed)} duplicate columns"
RenamedMessage(n) == <<"Renamed ", IntToStr(n), " duplicate columns">>

\* _handle_duplicate_columns with the report entries it makes.
HandleDuplicateColumnsReported(t, report) ==
    LET r == HandleDuplicateColumns(t.columns) IN
    [df     |-> [t EXCEPT !.columns = r.columns],
     report |-> IF r.renamed # <<>>
                THEN [Record(report, "duplicate_columns",
                             RenamedMessage(Len(r.renamed)))
                      EXCEPT !.columns_renamed = r.renamed]
                ELSE report]

\* Step 5: if self.handle_duplicates: df = self._handle_duplicate_columns(df)
DuplicatesStage(c) ==
    IF c.self.handle_duplicates
    THEN { Ran([c EXCEPT !.df = r.df, !.report = r.report],
               "duplicates", "infer") :
             r \in {HandleDuplicateColumnsReported(c.df, c.report)} }
    ELSE { [c EXCEPT !.pc = "infer"] }

\* The columns of a table as Series, and the table of a list of Series.
SeriesOf(t) ==
    [j \in 1..Len(t.columns) |->
        [name   |-> t.columns[j],
         dtype  |-> t.dtypes[j],
         values |-> [i \in 1..Len(t.rows) |-> t.rows[i][j]]]]
TableOf(series, nrows) ==
    [columns |-> [j \in 1..Len(series) |-> series[j].name],
     rows    |-> [i \in 1..nrows |->
                    [j \in 1..Len(series) |-> series[j].values[i]]],
     dtypes  |-> [j \in 1..Len(series) |-> series[j].dtype]]

\* _infer_types on a table: df[col] is a DataFrame when two columns have
\* the name col, and a DataFrame has no dtype.
InferredTable(r, nrows) ==
    Ok([df |-> TableOf(r.df, nrows), report |-> r.report])
InferTypesOfTable(t, report) ==
    IF ~Distinct(t.columns)
    THEN Err("AttributeError",
             <<"'DataFrame' object has no attribute 'dtype'">>)
    ELSE InferredTable(InferTypes(SeriesOf(t), report), Len(t.rows))

\* Step 6: if self.infer_types: df = self._infer_types(df)
InferStage(c) ==
    IF c.self.infer_types
    THEN { IF r.kind = "raised" THEN Raise(c, r)
           ELSE Ran([c EXCEPT !.df = r.value.df, !.report = r.value.report],
                    "infer", "finish") :
             r \in {InferTypesOfTable(c.df, c.report)} }
    ELSE { [c EXCEPT !.pc = "finish"] }

\* df.shape
Shape(t) == <<Len(t.rows), Len(t.columns)>>

\* self._report['final_shape'] = df.shape and the return.
FinishStage(c) ==
    { LET report == [c.report EXCEPT !.final_shape = Shape(c.df)] IN
      [c EXCEPT !.pc = "returned",
                !.report = report,
                !.outcome = IF c.return_report
                            THEN Ok([df |-> c.df, report |-> report])
                            ELSE Ok([df |-> c.df])] }

\* The stage a call is at, as the set of the calls it can lead to.
Stage(c) ==
    CASE c.pc = "begin" -> BeginStage(c)
      [] c.pc = "resolve" -> ResolvePathStage(c)
      [] c.pc = "exists" -> ExistsStage(c)
      [] c.pc = "encoding" -> EncodingStage(c)
      [] c.pc = "read" -> ReadStage(c)
      [] c.pc = "header_info" -> HeaderInfoStage(c)
      [] c.pc = "trim" -> TrimStage(c)
      [] c.pc = "duplicates" -> DuplicatesStage(c)
      [] c.pc = "infer" -> InferStage(c)
      [] c.pc = "finish" -> FinishStage(c)
      [] OTHER -> {}

\* The checkers tried: separator '_', max_header_rows 5 with every
\* setting of the three switches, and max_header_rows 1 with the switches
\* on.
Checkers ==
    { DataStructureChecker(<<"_">>, DefaultMaxHeaderRows, t, i, h) :
        t \in BOOLEAN, i \in BOOLEAN, h \in BOOLEAN }
    \cup { DataStructureChecker(<<"_">>, 1, TRUE, TRUE, TRUE) }

\* The extensions of the file names: supported ones in lower and in upper
\* case, and one that is not supported.
Extensions ==
    { <<".", "c", "s", "v">>, <<".", "C", "S", "V">>,
      <<".", "t", "s", "v">>, <<".", "x", "l", "s", "x">>,
      <<".", "t", "x", "t">> }

\* The bytes of the delimited text files: empty; A,1; A,A over 1,1; the
\* same with a space before the second A; a header in cp949; a cut BOM;
\* tab-delimited A and A over 1 and 1; numbers only; a table with an empty
\* column and an empty row; A,A,A over 1,A, A; two header lines A over a
\* date, with an empty second column.
TextContents ==
    { <<>>,
      <<65, 44, 49>>,
      <<65, 44, 65, 10, 49, 44, 49>>,
      <<65, 44, 32, 65, 10, 49, 44, 49>>,
      <<176, 161, 44, 65, 10, 49, 44, 49>>,
      <<239, 187>>,
      <<65, 9, 65, 10, 49, 9, 49>>,
      <<49, 44, 49, 10, 49, 44, 49>>,
      <<65, 44, 10, 49, 44, 10, 44>>,
      <<65, 44, 65, 44, 65, 10, 49, 44, 65, 44, 32, 65>>,
      <<65, 44, 10, 65, 44, 10,
        50, 48, 50, 52, 45, 48, 49, 45, 49, 53, 44>> }

\* Bound: the most cells (rows times columns) of a sheet.
MaxSheetCells == 4

\* The cells of a sheet: empty, a label, a number.
SheetCells == { NaN, Text(<<"A">>), Number(<<"1">>) }

\* The shapes <<rows, columns>> of the sheets.
SheetShapes ==
    { rc \in (0..MaxSheetCells) \X (0..MaxSheetCells) :
        /\ rc[1] * rc[2] <= MaxSheetCells
        /\ (rc[1] = 0 <=> rc[2] = 0) }

\* The sheet of the end-to-end scenario: the header rows Info, null,
\* Score, null and ID, Name, Math, Eng over three data rows, the data row
\* at position null_row entirely null and the column at position null_col
\* null in every data row.
ScenarioHeader ==
    << <<Text(<<"I", "n", "f", "o">>), NaN,
         Text(<<"S", "c", "o", "r", "e">>), NaN>>,
       <<Text(<<"I", "D">>), Text(<<"N", "a", "m", "e">>),
         Text(<<"M", "a", "t", "h">>), Text(<<"E", "n", "g">>)>> >>
ScenarioRecord ==
    <<Number(<<"7">>), Text(<<"K", "i", "m">>), Number(<<"9", "0">>),
      Number(<<"8", "5">>)>>
ScenarioSheet(null_row, null_col) ==
    [ncols |-> Len(ScenarioRecord),
     rows  |-> ScenarioHeader \o
               [i \in 1..3 |->
                  [j \in 1..Len(ScenarioRecord) |->
                     IF i = null_row \/ j = null_col THEN NaN
                     ELSE ScenarioRecord[j]]]]
ScenarioSheets ==
    { ScenarioSheet(null_row, null_col) :
        null_row \in 1..3, null_col \in 1..Len(ScenarioRecord) }

\* A regular file of a filesystem.
File(path, content) == [path |-> path, kind |-> "file", content |-> content]

\* The stem of the file names: one accented letter, precomposed.
FileStem == <<"E">>

\* '.xlsx'
Xlsx == <<".", "x", "l", "s", "x">>

\* A call starts with a checker, a flag and a path: the file name alone
\* or below "a".  The filesystem is empty, or holds a regular file "a", or
\* holds the file under its name in NFC or in NFD, with a content that
\* fits its extension: one of the texts, a small sheet or a sheet of the
\* scenario.
ReadInit ==
    \E self_ \in Checkers, return_report \in BOOLEAN, ext \in Extensions,
       nested \in BOOLEAN :
       LET name      == FileStem \o ext
           file_path == IF nested THEN << <<"a">>, name >> ELSE <<name>>
       IN  \/ call = NewCall(self_, file_path, return_report, {})
           \/ call = NewCall(self_, file_path, return_report,
                             {File(<< <<"a">> >>, TextFile(<<>>))})
           \/ /\ ~nested
              /\ \E on_disk \in {name, NFD(name)} :
                    \/ /\ Lower(ext) # Xlsx
                       /\ \E b \in TextContents :
                             call = NewCall(self_, file_path, return_report,
                                        {File(<<on_disk>>, TextFile(b))})
                    \/ /\ Lower(ext) = Xlsx
                       /\ \/ \E rc \in SheetShapes :
                                \E rs \in [1..rc[1] -> [1..rc[2] -> SheetCells]] :
                                   call = NewCall(self_, file_path, return_report,
                                              {File(<<on_disk>>,
                                                    Workbook([ncols |-> rc[2],
                                                              rows |-> rs]))})
                          \/ \E sheet \in ScenarioSheets :
                                call = NewCall(self_, file_path, return_report,
                                           {File(<<on_disk>>, Workbook(sheet))})

\* self._report = {...}
Begin ==
    /\ call.pc = "begin"
    /\ call' \in BeginStage(call)
    /\ UNCHANGED <<dupVars, idVars, hdrVars, flatVars, trimVars, inferVars,
                   encVars, pathVars, concVars>>

\* file_path = _resolve_unicode_path(file_path)
ResolvePath ==
    /\ call.pc = "resolve"
    /\ call' \in ResolvePathStage(call)
    /\ UNCHANGED <<dupVars, idVars, hdrVars, flatVars, trimVars, inferVars,
                   encVars, pathVars, concVars>>

\* if not file_path.exists(): raise FileNotFoundError(...)
CheckExists ==
    /\ call.pc = "exists"
    /\ call' \in ExistsStage(call)
    /\ UNCHANGED <<dupVars, idVars, hdrVars, flatVars, trimVars, inferVars,
                   encVars, pathVars, concVars>>

\* encoding = self._detect_encoding(file_path)
ResolveEncoding ==
    /\ call.pc = "encoding"
    /\ call' \in EncodingStage(call)
    /\ UNCHANGED <<dupVars, idVars, hdrVars, flatVars, trimVars, inferVars,
                   encVars, pathVars, concVars>>

\* df = reader.read(file_path, sheet_name=sheet_name, **kwargs)
ReadFile ==
    /\ call.pc = "read"
    /\ call' \in ReadStage(call)
    /\ UNCHANGED <<dupVars, idVars, hdrVars, flatVars, trimVars, inferVars,
                   encVars, pathVars, concVars>>

\* header_info = reader.get_header_info(file_path, sheet_name)
HeaderInfo ==
    /\ call.pc = "header_info"
    /\ call' \in HeaderInfoStage(call)
    /\ UNCHANGED <<dupVars, idVars, hdrVars, flatVars, trimVars, inferVars,
                   encVars, pathVars, concVars>>

\* df = self._trim_empty(df)
TrimTable ==
    /\ call.pc = "trim"
    /\ call' \in TrimStage(call)
    /\ UNCHANGED <<dupVars, idVars, hdrVars, flatVars, trimVars, inferVars,
                   encVars, pathVars, concVars>>

\* df = self._handle_duplicate_columns(df)
RenameDuplicates ==
    /\ call.pc = "duplicates"
    /\ call' \in DuplicatesStage(call)
    /\ UNCHANGED <<dupVars, idVars, hdrVars, flatVars, trimVars, inferVars,
                   encVars, pathVars, concVars>>

\* df = self._infer_types(df)
InferTable ==
    /\ call.pc = "infer"
    /\ call' \in InferStage(call)
    /\ UNCHANGED <<dupVars, idVars, hdrVars, flatVars, trimVars, inferVars,
                   encVars, pathVars, concVars>>

\* self._report['final_shape'] = df.shape; return
Finish ==
    /\ call.pc = "finish"
    /\ call' \in FinishStage(call)
    /\ UNCHANGED <<dupVars, idVars, hdrVars, flatVars, trimVars, inferVars,
                   encVars, pathVars, concVars>>

ReadNext ==
    \/ Begin
    \/ ResolvePath
    \/ CheckExists
    \/ ResolveEncoding
    \/ ReadFile
    \/ HeaderInfo
    \/ TrimTable
    \/ RenameDuplicates
    \/ InferTable
    \/ Finish

ReadStart ==
    ReadInit /\ DupIdle /\ IdIdle /\ HdrIdle /\ FlatIdle /\ TrimIdle
    /\ InferIdle /\ EncIdle /\ PathIdle /\ ConcIdle

SpecRead == ReadStart /\ [][ReadNext]_vars

(***************************************************************************)
(* Claims about the Orchestrator                                           *)
(***************************************************************************)

\* The stages that read or change the table.
LaterStages ==
    {"detect_encoding", "read", "header_info", "trim", "duplicates", "infer"}

\* The call is past the two checks of the path and of the format.
PastExistenceCheck == call.pc \notin {"begin", "resolve", "exists"}
PastFormatCheck ==
    call.pc \notin {"begin", "resolve", "exists", "encoding", "read"}

\* C15: smart_read raises FileNotFoundError, whatever the extension, when
\* the path it looks for does not exist, and an unsupported-format error
\* that names the extension and the supported formats when the path
\* exists and its lower-cased extension is not supported; in both cases
\* no table and no report is returned and no later stage has run.
C15_FailsFastOnMissingOrUnsupported ==
    LET ext == Lower(Suffix(call.file_path)) IN
    /\ (PastExistenceCheck /\ ~Exists(call.fs, call.file_path))
          => /\ call.pc = "raised"
             /\ call.outcome.exception = "FileNotFoundError"
             /\ \A i \in 1..Len(call.stages) : call.stages[i] \notin LaterStages
    /\ (PastFormatCheck /\ Exists(call.fs, call.file_path) /\ ~IsSupported(ext))
          => /\ call.pc = "raised"
             /\ call.outcome.exception = "ValueError"
             /\ Len(call.outcome.message) >= 5
             /\ call.outcome.message[2] = ext
             /\ call.outcome.message[5] = SupportedExtensions
             /\ \A i \in 1..Len(call.stages) : call.stages[i] \notin LaterStages

\* C16: for an existing file with a supported extension, smart_read with
\* return_report set always returns; nothing but the path and format
\* checks raises, also when the file decodes only under the non-UTF-8
\* encoding the resolver chose.
C16_ExistingSupportedFileAlwaysReturns ==
    (call.return_report /\ call.pc = "raised")
        => ~(/\ Exists(call.fs, call.file_path)
             /\ IsSupported(Lower(Suffix(call.file_path))))

\* The names the reader proposes for the columns of the file of a call,
\* before its duplicate resolution.
ProposedNames(c) ==
    LET reader      == MultiLevelReader(c.self.separator, c.self.max_header_rows)
        format_type == SUPPORTED_FORMATS(c.ext)
        raw_df      == ReadRaw(reader, c.file_path, c.fs, format_type, c.kwargs)
        header_rows == DetectHeaderRows(raw_df.value, reader.max_header_rows)
        table       == ReadWithHeaders(reader, c.file_path, c.fs, format_type,
                                       header_rows, c.kwargs).value
    IN  IF IsMultiIndex(table.columns)
        THEN FlattenProposed(table.columns, reader.separator).flattened
        ELSE CleanProposed(table.columns)

\* C17: when a name of the returned table differs from the name proposed
\* for that column because a duplicate suffix was appended, the report
\* lists duplicate_columns and its rename list holds the pair (proposed
\* name, returned name).  Checked where no column was removed, so that
\* the columns returned are the columns proposed, in order.
C17_EveryRenameReported ==
    (call.pc = "returned"
     /\ Len(call.df.columns) = Len(ProposedNames(call)))
        => \A j \in 1..Len(call.df.columns) :
              call.df.columns[j] # ProposedNames(call)[j]
                 => /\ Has(call.report.issues_detected, "duplicate_columns")
                    /\ Has(call.report.columns_renamed,
                           <<ProposedNames(call)[j], call.df.columns[j]>>)

\* The issue tags in the order of the stages that report them, and the
\* first piece of the fix description each goes with.
IssueOrder ==
    <<"unicode_path", "encoding_detection_failed", "multi_level_headers",
      "empty_rows_or_columns", "duplicate_columns", "type_inference">>
FixStarts ==
    <<"Resolved Unicode path normalization",
      "Using utf-8 with error replacement", "Flattened ", "Removed ",
      "Renamed ", "Converted data types for ">>
IsIssue(tag) == \E k \in 1..Len(IssueOrder) : IssueOrder[k] = tag
Rank(tag) == CHOOSE k \in 1..Len(IssueOrder) : IssueOrder[k] = tag

\* C18: at every stage boundary of a call issues_detected and
\* fixes_applied have the same length, the fix at each position is the one
\* of the issue at that position, and the issue tags are in the order
\* unicode_path, encoding_detection_failed, multi_level_headers,
\* empty_rows_or_columns, duplicate_columns, type_inference, each at most
\* once.
C18_IssuesAndFixesPairedInOrder ==
    call.pc # "begin" =>
        LET issues == call.report.issues_detected
            fixes  == call.report.fixes_applied
        IN  /\ Len(issues) = Len(fixes)
            /\ \A i \in 1..Len(issues) :
                  /\ IsIssue(issues[i])
                  /\ fixes[i][1] = FixStarts[Rank(issues[i])]
            /\ \A i, j \in 1..Len(issues) :
                  i < j => Rank(issues[i]) < Rank(issues[j])

\* A returned call whose report pairs four issues with their fixes.
C18_Witness ==
    /\ call.pc = "returned"
    /\ Len(call.report.issues_detected) >= 4
    /\ Len(call.report.fixes_applied) = Len(call.report.issues_detected)

\* The ways a call can end: every run of its stages to a return or a
\* raise.
RECURSIVE Outcomes(_)
Outcomes(c) ==
    IF c.pc \in {"returned", "raised"} THEN {c}
    ELSE UNION { Outcomes(d) : d \in Stage(c) }

\* The path with the extension of its last component in lower case.
LowerExtension(path) ==
    IF path = <<>> THEN path
    ELSE LET name   == Name(path)
             suffix == Suffix(path)
         IN  [path EXCEPT ![Len(path)] =
                SubSeq(name, 1, Len(name) - Len(suffix)) \o Lower(suffix)]

\* The same call on the same files, the extensions in lower case.
LowerCaseTwin(c) ==
    NewCall(c.self, LowerExtension(c.requested), c.return_report,
            { [e EXCEPT !.path = LowerExtension(e.path)] : e \in c.fs })

\* Two finished calls ended alike: the same table, the same stages, the
\* same report but for the path, the same exception.
EndedAlike(c, d) ==
    /\ c.pc = d.pc
    /\ c.df = d.df
    /\ c.stages = d.stages
    /\ [c.report EXCEPT !.file_path = <<>>] = [d.report EXCEPT !.file_path = <<>>]
    /\ c.pc = "raised" => c.outcome.exception = d.outcome.exception

\* C20: a file whose extension is a supported one in another letter case
\* is processed as the same file with the extension in lower case is: the
\* same delimiter, the same table, the same report.
C20_ExtensionCaseInsensitive ==
    (call.pc \in {"returned", "raised"}
     /\ Suffix(call.requested) # Lower(Suffix(call.requested)))
        => \E d \in Outcomes(LowerCaseTwin(call)) : EndedAlike(call, d)

(***************************************************************************)
(* Concurrent callers of the module-level smart_read                       *)
(***************************************************************************)

\* The instances of DataStructureChecker are numbered in the order they
\* are made.  heap[r] is the dict with the reference r, and checkers[n]
\* is the reference the _report attribute of instance n holds; the dict
\* __init__ makes for instance n has the reference n, and the dict the
\* first statement of the smart_read call of caller i makes has the
\* reference MaxCallers + i.  A call in progress is the frame of
\* DataStructureChecker.smart_read (its report field is not used: the
\* report is reached through the attribute of its instance), the number
\* of the instance it runs on and, once it returned, the reference of the
\* report it returned.

\* Mutant: the callers share the first instance.
SharedInstance(instances) == 1

\* checker = DataStructureChecker(separator=separator): a new instance.
NewInstance(instances) == Len(instances) + 1

\* The module-level smart_read(file_path, separator, return_report)
\* before its first statement.
ModuleCall(file_path, separator_, return_report, filesystem) ==
    [checker    |-> 0,
     overlapped |-> FALSE,
     result     |-> 0,
     frame      |-> [NewCall(DataStructureChecker(separator_,
                                 DefaultMaxHeaderRows, TRUE, TRUE, TRUE),
                             file_path, return_report, filesystem)
                     EXCEPT !.pc = "new"]]

\* The frame of a call with the report its instance refers to in it.
Bound(c, instances, objects) ==
    [c.frame EXCEPT !.report = objects[instances[c.checker]]]

\* The frame of a call that ended, with the report it returned or, after
\* an exception, the report its instance refers to.
Ended(c, instances, objects) ==
    [c.frame EXCEPT !.report = IF c.frame.pc = "returned"
                               THEN objects[c.result]
                               ELSE objects[instances[c.checker]]]

\* The call is between its first statement and its end.
Running(c) == c.frame.pc \notin {"new", "returned", "raised"}

\* The files of the callers: a text file with two header lines, an empty
\* column and a date; a text file with the headers A,A,A over 1,A, A; a
\* workbook stored under the NFD form of its name; a text file that no
\* caller asks for.
ConcFilesystem ==
    { File(<< <<"a", ".", "c", "s", "v">> >>,
           TextFile(<<65, 44, 10, 65, 44, 10,
                      50, 48, 50, 52, 45, 48, 49, 45, 49, 53, 44>>)),
      File(<< <<"a", ".", "t", "s", "v">> >>,
           TextFile(<<65, 9, 65, 10, 49, 9, 49>>)),
      File(<< <<"a", "a", ".", "c", "s", "v">> >>,
           TextFile(<<65, 44, 65, 44, 65, 10, 49, 44, 65, 44, 32, 65>>)),
      File(<< <<"e", "'", ".", "x", "l", "s", "x">> >>,
           Workbook([ncols |-> 2,
                     rows  |-> << <<Text(<<"A">>), NaN>>,
                                  <<Number(<<"1">>), NaN>>,
                                  <<NaN, NaN>> >>])) }

\* The paths the callers ask for: two of the text files, the workbook by
\* the NFC form of its name, and a file that does not exist.
ConcRequests ==
    { << <<"a", ".", "c", "s", "v">> >>,
      << <<"a", "a", ".", "c", "s", "v">> >>,
      << <<"E", ".", "x", "l", "s", "x">> >>,
      << <<"a", ".", "x", "l", "s", "x">> >> }

\* Bound: the number of concurrent callers.
MaxCallers == 2

\* The references of the dicts, and the heap before any dict has an
\* entry.
DictOfInstance(n) == n
DictOfCall(i) == MaxCallers + i
NoDicts == [r \in 1..(MaxCallers + MaxCallers) |-> <<>>]

\* The callers ask for different files, and each for its report.
ConcInit ==
    /\ \E paths \in [1..MaxCallers -> ConcRequests] :
          /\ \A i, j \in 1..MaxCallers : i # j => paths[i] # paths[j]
          /\ calls = [i \in 1..MaxCallers |->
                        ModuleCall(paths[i], <<"_">>, TRUE, ConcFilesystem)]
    /\ checkers = <<>>
    /\ heap = NoDicts

\* checker = DataStructureChecker(separator=separator); __init__ gives a
\* new instance a new dict, _report = {}.
Construct(i) ==
    /\ calls[i].frame.pc = "new"
    /\ LET n == NewInstance(checkers) IN
         /\ checkers' = IF n > Len(checkers)
                        THEN Append(checkers, DictOfInstance(n))
                        ELSE checkers
         /\ heap' = heap
         /\ calls' = [j \in 1..MaxCallers |->
                        IF j = i
                        THEN [calls[i] EXCEPT
                                !.checker = n,
                                !.frame.pc = "begin",
                                !.overlapped =
                                   \E k \in 1..MaxCallers : Running(calls[k])]
                        ELSE IF Running(calls[j])
                        THEN [calls[j] EXCEPT !.overlapped = TRUE]
                        ELSE calls[j]]
    /\ UNCHANGED <<dupVars, idVars, hdrVars, flatVars, trimVars, inferVars,
                   encVars, pathVars, readVars>>

\* The call after a stage left it as the frame d: the reference of the
\* report it returned is the one its instance holds at the return.
AfterStage(c, d, reference) ==
    [c EXCEPT !.frame = [d EXCEPT !.report = <<>>],
              !.result = IF d.pc = "returned" THEN reference ELSE @]

\* The next stage of checker.smart_read(...) in caller i.  The first
\* statement, self._report = {...}, makes a new dict and binds the
\* attribute to it; every other stage reads and writes the dict the
\* attribute refers to when the stage runs.
RunStage(i) ==
    /\ Running(calls[i])
    /\ \E d \in Stage(Bound(calls[i], checkers, heap)) :
          IF calls[i].frame.pc = "begin"
          THEN /\ heap' = [heap EXCEPT ![DictOfCall(i)] = d.report]
               /\ checkers' = [checkers EXCEPT ![calls[i].checker] =
                                  DictOfCall(i)]
               /\ calls' = [calls EXCEPT ![i] =
                               AfterStage(@, d, DictOfCall(i))]
          ELSE /\ heap' = [heap EXCEPT ![checkers[calls[i].checker]] =
                              d.report]
               /\ checkers' = checkers
               /\ calls' = [calls EXCEPT ![i] =
                               AfterStage(@, d, checkers[calls[i].checker])]
    /\ UNCHANGED <<dupVars, idVars, hdrVars, flatVars, trimVars, inferVars,
                   encVars, pathVars, readVars>>

ConcNext == \E i \in 1..MaxCallers : Construct(i) \/ RunStage(i)

ConcStart ==
    ConcInit /\ DupIdle /\ IdIdle /\ HdrIdle /\ FlatIdle /\ TrimIdle
    /\ InferIdle /\ EncIdle /\ PathIdle /\ ReadIdle

SpecConc == ConcStart /\ [][ConcNext]_vars

(***************************************************************************)
(* Claims about concurrent callers                                         *)
(***************************************************************************)

\* The call alone: the same arguments on the same files, no other caller.
Alone(c) ==
    NewCall(c.frame.self, c.frame.requested, c.frame.return_report, c.frame.fs)

\* C19: under every interleaving of the stages of concurrent calls of the
\* module-level smart_read on different files, each call ends as it ends
\* alone: the same table or exception, and a report that holds the
\* issues, fixes, shapes and counts of its own stages only.
C19_ConcurrentCallsIndependent ==
    \A i \in 1..MaxCallers :
       calls[i].frame.pc \in {"returned", "raised"}
          => Ended(calls[i], checkers, heap) \in Outcomes(Alone(calls[i]))

\* Two calls that ran at the same time have both returned, with reports
\* that list different issues.
C19_Witness ==
    /\ \A i \in 1..MaxCallers : calls[i].frame.pc = "returned"
    /\ \E i \in 1..MaxCallers : calls[i].overlapped
    /\ heap[calls[1].result].issues_detected # <<>>
    /\ heap[calls[1].result].issues_detected
          # heap[calls[2].result].issues_detected

(***************************************************************************)
(* Callers of smart_read on one DataStructureChecker instance              *)
(***************************************************************************)

\* checker.smart_read(file_path, return_report=...) on the instance
\* checker, before its first statement.
MethodCall(checker, file_path, return_report, filesystem) ==
    [ModuleCall(file_path, <<"_">>, return_report, filesystem)
     EXCEPT !.checker = checker, !.frame.pc = "begin"]

\* One instance, made with the default configuration, its _report the
\* dict of __init__; the callers ask it for different files, each for
\* its report.
ShareInit ==
    /\ \E paths \in [1..MaxCallers -> ConcRequests] :
          /\ \A i, j \in 1..MaxCallers : i # j => paths[i] # paths[j]
          /\ calls = [i \in 1..MaxCallers |->
                        MethodCall(1, paths[i], TRUE, ConcFilesystem)]
    /\ checkers = <<DictOfInstance(1)>>
    /\ heap = NoDicts

\* The next stage of one of the callers; they run in any order, one
\* after the other included.
ShareNext == \E i \in 1..MaxCallers : RunStage(i)

ShareStart ==
    ShareInit /\ DupIdle /\ IdIdle /\ HdrIdle /\ FlatIdle /\ TrimIdle
    /\ InferIdle /\ EncIdle /\ PathIdle /\ ReadIdle

SpecShare == ShareStart /\ [][ShareNext]_vars

\* C27: the report a smart_read call returns is the report the call
\* makes when it runs alone, with the issues, fixes, shapes and counts of
\* its own file only, also when another call on the same instance runs
\* before, after or in between; and a report that was returned is not
\* changed by any later step.
C27_ReportBelongsToItsCall ==
    /\ [](\A i \in 1..MaxCallers :
             calls[i].frame.pc = "returned"
                => \E d \in Outcomes(Alone(calls[i])) :
                      d.pc = "returned" /\ d.report = heap[calls[i].result])
    /\ [][\A i \in 1..MaxCallers :
             calls[i].frame.pc = "returned"
                => heap'[calls[i].result] = heap[calls[i].result]]_concVars


(***************************************************************************)
(* Orchestrator: DataStructureChecker.diagnose                             *)
(***************************************************************************)

\* f'non_utf8_encoding:{encoding}' and
\* f"File uses {encoding} encoding, will auto-convert"
NonUtf8Issue(encoding) == "non_utf8_encoding:" \o encoding
NonUtf8Recommendation(encoding) ==
    <<"File uses ", encoding, " encoding, will auto-convert">>

\* f"Detected {header_info['header_count']}-level headers, will flatten"
MultiLevelRecommendation(n) ==
    <<"Detected ", IntToStr(n), "-level headers, will flatten">>

\* The diagnosis with one more issue and its recommendation.
Found(diagnosis, issue, recommendation) ==
    [diagnosis EXCEPT !.issues = Append(@, issue),
                      !.recommendations = Append(@, recommendation)]

\* The call after diagnose returned its diagnosis.
ReturnDiagnosis(c, diagnosis) ==
    [c EXCEPT !.pc = "returned", !.diagnosis = diagnosis,
              !.outcome = Ok(diagnosis)]

\* file_path = _resolve_unicode_path(file_path), ext, and the diagnosis
\* dict as it is created.
DiagnoseResolveStage(c) ==
    { IF r.kind = "raised"
      THEN [diagnosis |-> <<>>] @@ Raise(c, ResolverError(r))
      ELSE [diagnosis |->
              [file_path       |-> PathStr(r.path),
               file_exists     |-> Exists(c.fs, r.path),
               file_extension  |-> Lower(Suffix(r.path)),
               issues          |-> <<>>,
               recommendations |-> <<>>,
               header_info     |-> None]]
           @@ Ran([c EXCEPT !.file_path = r.path,
                            !.ext = Lower(Suffix(r.path))],
                  "resolve_path", "exists") :
        r \in ResolveUnicodePath(c.file_path, c.fs) }

\* if not file_path.exists(): the file_not_found issue and the return.
DiagnoseExistsStage(c) ==
    { IF ~Exists(c.fs, c.file_path)
      THEN ReturnDiagnosis(Ran(c, "exists", "returned"),
              [c.diagnosis EXCEPT !.issues = Append(@, "file_not_found")])
      ELSE Ran(c, "exists", "encoding") }

\* The diagnosis after the encoding was detected.
EncodingDiagnosed(diagnosis, encoding) ==
    IF encoding # "utf-8"
    THEN Found(diagnosis, NonUtf8Issue(encoding),
               NonUtf8Recommendation(encoding))
    ELSE diagnosis

\* The encoding check of .csv and .tsv files.  _detect_encoding writes to
\* the report of the checker in its fallback only.
DiagnoseEncodingStage(c) ==
    IF c.ext \in DelimitedExtensions
    THEN { Ran([c EXCEPT !.diagnosis = EncodingDiagnosed(@, d.encoding)],
               "detect_encoding", "header_info") :
             d \in {DetectEncoding(FileContent(c.fs, c.file_path).bytes,
                                   c.report)} }
    ELSE { [c EXCEPT !.pc = "header_info"] }

\* The diagnosis with the header information and, for more than one header
\* row, the multi_level_headers issue.
WithHeaderInfo(diagnosis, header_info, header_count) ==
    [(IF header_count > 1
      THEN Found(diagnosis, "multi_level_headers",
                 MultiLevelRecommendation(header_count))
      ELSE diagnosis)
     EXCEPT !.header_info = header_info]

\* reader = MultiLevelReader(separator=self.separator), the header
\* information it gets, and the return.
DiagnoseHeadersStage(c) ==
    { IF o.kind = "raised" THEN Raise(c, o)
      ELSE ReturnDiagnosis(Ran(c, "header_info", "returned"),
              WithHeaderInfo(c.diagnosis, o.value,
                             Get(o.value, "header_count", 1))) :
        o \in GetHeaderInfo(MultiLevelReader(c.self.separator,
                                             DefaultMaxHeaderRows),
                            c.file_path, c.fs) }

\* A call of diagnose takes the checker, the path and the filesystem of a
\* call of smart_read; it has no return_report argument, which is held
\* fixed.
DiagInit == ReadInit /\ call.return_report

\* file_path = _resolve_unicode_path(file_path) and diagnosis = {...}
DiagnoseResolve ==
    /\ call.pc = "begin"
    /\ call' \in DiagnoseResolveStage(call)
    /\ UNCHANGED <<dupVars, idVars, hdrVars, flatVars, trimVars, inferVars,
                   encVars, pathVars, concVars>>

\* if not file_path.exists(): ... return diagnosis
DiagnoseExists ==
    /\ call.pc = "exists"
    /\ "diagnosis" \in DOMAIN call
    /\ call' \in DiagnoseExistsStage(call)
    /\ UNCHANGED <<dupVars, idVars, hdrVars, flatVars, trimVars, inferVars,
                   encVars, pathVars, concVars>>

\* if ext in ['.csv', '.tsv']: encoding = self._detect_encoding(file_path)
DiagnoseEncoding ==
    /\ call.pc = "encoding"
    /\ "diagnosis" \in DOMAIN call
    /\ call' \in DiagnoseEncodingStage(call)
    /\ UNCHANGED <<dupVars, idVars, hdrVars, flatVars, trimVars, inferVars,
                   encVars, pathVars, concVars>>

\* header_info = reader.get_header_info(file_path, sheet_name) and the
\* return.
DiagnoseHeaders ==
    /\ call.pc = "header_info"
    /\ "diagnosis" \in DOMAIN call
    /\ call' \in DiagnoseHeadersStage(call)
    /\ UNCHANGED <<dupVars, idVars, hdrVars, flatVars, trimVars, inferVars,
                   encVars, pathVars, concVars>>

DiagNext ==
    \/ DiagnoseResolve
    \/ DiagnoseExists
    \/ DiagnoseEncoding
    \/ DiagnoseHeaders

DiagStart ==
    DiagInit /\ DupIdle /\ IdIdle /\ HdrIdle /\ FlatIdle /\ TrimIdle
    /\ InferIdle /\ EncIdle /\ PathIdle /\ ConcIdle

SpecDiag == DiagStart /\ [][DiagNext]_vars

\* C22: diagnose always returns and never raises.  For a path that does
\* not exist after resolution the diagnosis has file_exists false and
\* issues exactly [file_not_found], and neither the encoding detection nor
\* the header detection ran.  For an existing file it has the lower-cased
\* extension, the non_utf8_encoding issue when a .csv or .tsv file
\* resolves to another encoding than utf-8, the header information, and
\* multi_level_headers exactly when more than one header row is detected.
C22_DiagnoseAlwaysReturns ==
    /\ call.pc # "raised"
    /\ call.pc = "returned" =>
          LET diagnosis == call.diagnosis IN
          IF ~Exists(call.fs, call.file_path)
          THEN /\ ~diagnosis.file_exists
               /\ diagnosis.issues = <<"file_not_found">>
               /\ call.stages = <<"resolve_path", "exists">>
          ELSE /\ diagnosis.file_exists
               /\ diagnosis.file_extension = Lower(Suffix(call.file_path))
               /\ Has(call.stages, "detect_encoding")
                     <=> call.ext \in DelimitedExtensions
               /\ call.ext \in DelimitedExtensions =>
                     LET encoding ==
                            DetectEncoding(
                               FileContent(call.fs, call.file_path).bytes,
                               call.report).encoding
                     IN  Has(diagnosis.issues, NonUtf8Issue(encoding))
                            <=> encoding # "utf-8"
               /\ Has(call.stages, "header_info")
               /\ Has(diagnosis.issues, "multi_level_headers")
                     <=> Get(diagnosis.header_info, "header_count", 1) > 1

\* C28: the header row count in the diagnosis of a file equals the number
\* of header rows smart_read, on the same checker, the same path and the
\* same filesystem, detects and records in its report.
C28_DiagnoseCountsHeadersAsSmartRead ==
    (call.pc = "returned"
     /\ "header_count" \in DOMAIN call.diagnosis.header_info)
        => \A d \in Outcomes(NewCall(call.self, call.requested, TRUE, call.fs)) :
              d.pc = "returned"
                 => Len(d.report.header_rows)
                       = call.diagnosis.header_info.header_count


(***************************************************************************)
(* Unicode Path Resolver: failure and preference                           *)
(***************************************************************************)

\* C25: the resolver never raises, whatever the requested path and the
\* filesystem (a parent that exists but is no directory included); what it
\* returns is a path that exists or the requested path; the verbatim path
\* is returned when it exists, else the NFC form of the whole path when it
\* exists, else the NFD form when it exists, and a path found by scanning
\* the parent only when all three are absent.
C25_ResolverNeverRaises ==
    pathPc = "resolved" =>
        LET nfc_path == PathOf(Normalize("NFC", PathStr(requested)))
            nfd_path == PathOf(Normalize("NFD", PathStr(requested)))
        IN  /\ resolved.kind = "returned"
            /\ Exists(fs, resolved.path) \/ resolved.path = requested
            /\ IF Exists(fs, requested) THEN resolved.path = requested
               ELSE IF Exists(fs, nfc_path) THEN resolved.path = nfc_path
               ELSE IF Exists(fs, nfd_path) THEN resolved.path = nfd_path
               ELSE \/ resolved.path = requested
                    \/ Parent(resolved.path) = Parent(requested)

(***************************************************************************)
(* Encoding Resolver: the fallback                                         *)
(***************************************************************************)

\* C29: detection on a readable file returns a candidate of the priority
\* list under which the file decodes, the last one (iso-8859-1) at the
\* latest: the fallback after the loop is never taken, so the report is
\* left as it was and holds no encoding_detection_failed issue.
C29_FallbackNeverTaken ==
    encPc = "detected" =>
        /\ \E k \in 1..Len(ENCODINGS_TO_TRY) :
              detected.encoding = ENCODINGS_TO_TRY[k]
        /\ Decodes(detected.encoding, fileBytes)
        /\ detected.report = encReport
        /\ \A k \in 1..Len(detected.report.issues_detected) :
              detected.report.issues_detected[k] # "encoding_detection_failed"

\* A file that only the last candidate decodes.
C29_Witness ==
    /\ encPc = "detected"
    /\ detected.encoding = "iso-8859-1"
    /\ \A k \in 1..(Len(ENCODINGS_TO_TRY) - 1) :
          ~Decodes(ENCODINGS_TO_TRY[k], fileBytes)

(***************************************************************************)
(* Orchestrator: the switches, the stages and the shapes                   *)
(***************************************************************************)

\* C26: with handle_duplicates off smart_read appends no duplicate suffix:
\* the names of the returned table are the names the flattening of the
\* header block proposed, equal ones included.  Checked where no column
\* was removed, so that the columns returned are the columns proposed.
C26_NoSuffixWhenSwitchedOff ==
    (call.pc = "returned"
     /\ ~call.self.handle_duplicates
     /\ Len(call.df.columns) = Len(ProposedNames(call)))
        => call.df.columns = ProposedNames(call)

\* value is None.  An entry of a report holds None or a value of another
\* kind, so the two are told apart by how they are written.
IsNone(value) == ToString(value) = ToString(None)

\* s is an initial part of t.
IsPrefix(s, t) == Len(s) <= Len(t) /\ s = SubSeq(t, 1, Len(s))

\* The stages of a call that returns, in the order of smart_read: the
\* encoding is detected for .csv and .tsv only, and steps 4 to 6 run when
\* switched on.
StagesInOrder(c) ==
    <<"resolve_path", "exists">>
    \o (IF Lower(Suffix(c.requested)) \in DelimitedExtensions
        THEN <<"detect_encoding">> ELSE <<>>)
    \o <<"read", "header_info">>
    \o (IF c.self.trim_empty THEN <<"trim">> ELSE <<>>)
    \o (IF c.self.handle_duplicates THEN <<"duplicates">> ELSE <<>>)
    \o (IF c.self.infer_types THEN <<"infer">> ELSE <<>>)

\* C23: the stages of a smart_read call run one after the other in the
\* order path resolution, existence check, encoding resolution (.csv and
\* .tsv only), read (raw load, header detection, flattening with duplicate
\* resolution), header information, trimming, duplicate resolution, type
\* inference; a call that returns has run all of them that are enabled;
\* encoding_used is set exactly when the extension is .csv or .tsv; and
\* final_shape is set only at the return, to the shape of the table after
\* the last enabled stage.
C23_StagesRunInOrder ==
    /\ IsPrefix(call.stages, StagesInOrder(call))
    /\ call.pc = "returned" => call.stages = StagesInOrder(call)
    /\ call.pc # "begin" =>
          /\ ~IsNone(call.report.encoding_used)
                <=> Has(call.stages, "detect_encoding")
          /\ ~IsNone(call.report.final_shape) <=> call.pc = "returned"
    /\ Has(call.stages, "read") =>
          (~IsNone(call.report.encoding_used)
              <=> call.ext \in DelimitedExtensions)
    /\ call.pc = "returned" => call.report.final_shape = Shape(call.df)

\* A call on a delimited file that returned after all eight stages.
C23_Witness ==
    /\ call.pc = "returned"
    /\ Len(call.stages) = 8
    /\ ~IsNone(call.report.encoding_used)

\* The k-th smallest position of a set of positions.
Nth(positions, k) ==
    CHOOSE p \in positions : Cardinality({q \in positions : q < p}) = k - 1

\* The table out is the body without its entirely null rows and columns,
\* the others in their order, and the report counts the rows and columns
\* left out.
TrimmedAsCounted(body, out, report) ==
    LET rows_kept == {i \in 1..Len(body.rows) : ~RowAllNull(body.rows[i])}
        cols_kept == {j \in 1..Len(body.columns) : ~ColumnAllNull(body, j)}
    IN  /\ report.empty_rows_removed = Len(body.rows) - Cardinality(rows_kept)
        /\ report.empty_cols_removed
              = Len(body.columns) - Cardinality(cols_kept)
        /\ out.columns = [k \in 1..Cardinality(cols_kept) |->
                            body.columns[Nth(cols_kept, k)]]
        /\ out.rows = [i \in 1..Cardinality(rows_kept) |->
                         [k \in 1..Cardinality(cols_kept) |->
                            body.rows[Nth(rows_kept, i)][Nth(cols_kept, k)]]]

\* final rows = original rows - header rows - rows removed, and
\* final columns = original columns - columns removed.
ShapesAddUp(report) ==
    /\ report.final_shape[1]
          = report.original_shape[1] - Len(report.header_rows)
            - report.empty_rows_removed
    /\ report.final_shape[2]
          = report.original_shape[2] - report.empty_cols_removed

\* C24: with trimming on, the trimming stage leaves the body without its
\* entirely null rows and columns, the others in document order, and
\* reports how many of each it removed; and the report of a call that
\* returns satisfies final rows = original rows - header row count -
\* empty_rows_removed and final columns = original columns -
\* empty_cols_removed, original_shape being the shape of the raw grid.
C24_TrimCountsAndShapes ==
    /\ [][(call.pc = "trim" /\ call.self.trim_empty)
             => TrimmedAsCounted(call.df, call'.df, call'.report)]_call
    /\ []((call.pc = "returned" /\ call.self.trim_empty)
             => ShapesAddUp(call.report))

\* The sheet of the file of a call is one of the scenario.
OnScenarioSheet(c) ==
    \E e \in c.fs : e.content.kind = "sheet" /\ e.content.sheet \in ScenarioSheets

\* 'Info_ID', 'Info_Name', 'Score_Math', 'Score_Eng'
ScenarioNames ==
    << <<"I", "n", "f", "o", "_", "I", "D">>,
       <<"I", "n", "f", "o", "_", "N", "a", "m", "e">>,
       <<"S", "c", "o", "r", "e", "_", "M", "a", "t", "h">>,
       <<"S", "c", "o", "r", "e", "_", "E", "n", "g">> >>

\* C21: on a sheet of the scenario, with the default configuration,
\* smart_read detects the header rows 0 and 1, names the columns by
\* flattening Info_ID, Info_Name, Score_Math, Score_Eng (the column that
\* is entirely null is removed with its name), removes the one null row
\* and the one null column, so that the final shape is 2 rows by 3
\* columns out of 5 by 4, and reports multi_level_headers and
\* empty_rows_or_columns.
C21_ScenarioEndToEnd ==
    (OnScenarioSheet(call) /\ call.pc \in {"returned", "raised"}
     /\ call.self = DataStructureChecker(<<"_">>, DefaultMaxHeaderRows,
                                         TRUE, TRUE, TRUE))
        => /\ call.pc = "returned"
           /\ call.report.header_rows = <<0, 1>>
           /\ ProposedNames(call) = ScenarioNames
           /\ \E j \in 1..Len(ScenarioNames) :
                 call.df.columns
                    = SubSeq(ScenarioNames, 1, j - 1)
                      \o SubSeq(ScenarioNames, j + 1, Len(ScenarioNames))
           /\ call.report.empty_rows_removed = 1
           /\ call.report.empty_cols_removed = 1
           /\ call.report.original_shape = <<5, 4>>
           /\ call.report.final_shape = <<2, 3>>
           /\ Has(call.report.issues_detected, "multi_level_headers")
           /\ Has(call.report.issues_detected, "empty_rows_or_columns")

\* What holds of the shapes whatever the grid: the arithmetic for every
\* raw grid that has a row; for a raw grid without rows the header
\* detection answers [0] and the final shape is the original one, 0 by 0.
ShapesOfNonEmptyGridAddUp ==
    (call.pc = "returned" /\ call.self.trim_empty)
        => IF call.report.original_shape[1] > 0
           THEN ShapesAddUp(call.report)
           ELSE /\ call.report.header_rows = <<0>>
                /\ call.report.final_shape = call.report.original_shape

====
